---------------------------- MODULE Spec2Model ----------------------------
(***************************************************************************)
(* Model of the FedBOX storage layer: the badger, boltdb and sqlite        *)
(* repositories (storage/badger/repository.go, the boltdb repository and   *)
(* storage/sqlite/repository.go).  The three repositories are driven in    *)
(* lockstep: every public operation is applied to each backend, and the    *)
(* error kind each backend returned is recorded in `last`.                 *)
(*                                                                         *)
(* IRIs are sequences of path segments, host first: "https://h/actors/1"   *)
(* is <<"h", "actors", "1">>.  Stored bytes are modelled by the JSON value *)
(* they encode: an item, or a list of IRIs.                                *)
(***************************************************************************)
EXTENDS Integers, Sequences, FiniteSets, TLC

(***************************************************************************)
(* Bounds of the model.                                                    *)
(***************************************************************************)
\* deepest chain of nested loads followed before a load counts as diverging
MaxFuel == 4
\* most rows the sqlite collections table holds
MaxRows == 3

(***************************************************************************)
(* The universe of IRIs, types and items the callers use.                  *)
(***************************************************************************)
Host == "h"
BaseURL == <<Host>>
EmptyIRI == <<>>

ActorIRI == <<Host, "actors", "1">>
ObjectIRI == <<Host, "objects", "1">>
ActivityIRI == <<Host, "activities", "1">>

OnActor == {"inbox", "outbox", "liked", "following", "followers"}
OnObject == {"likes", "shares", "replies"}
ActivityPubCollections == OnActor \cup OnObject
FedboxCollections == {"activities", "actors", "objects"}

ActorTypes == {"Person", "Service"}
ActivityTypes == {"Create", "Like"}
ObjectTypes == {"Note", "Tombstone"}

TombstoneType == "Tombstone"
CreateType == "Create"
CollectionOfItems == "CollectionOfItems"
PublicNS == <<"www.w3.org", "ns", "activitystreams#Public">>

objectKey == "__raw"
metaDataKey == "__meta_data"

\* byte order of the path segments in use ('/' sorts before every one of them)
SegOrder == <<"1", "10", "__meta_data", "__raw", "activities", "actors", "followers",
              "following", "h", "inbox", "liked", "likes", "objects", "outbox",
              "replies", "shares">>

(***************************************************************************)
(* Items (go-ap/activitypub values).                                       *)
(***************************************************************************)
NilIt == [k |-> "nil"]
IriIt(i) == [k |-> "iri", id |-> i]
ColIt(items) == [k |-> "col", items |-> items]
NoCols == [c \in ActivityPubCollections |-> NilIt]

Obj(id, type, cols, actor, object) ==
    [k |-> "obj", id |-> id, type |-> type, cols |-> cols,
     actor |-> actor, object |-> object, formerType |-> "", to |-> <<>>]

IsNil(it) == it.k = "nil"
IsObject(it) == it.k = "obj"
IsLink(it) == it.k = "iri"
IsCollection(it) == it.k = "col"

GetLink(it) == IF it.k \in {"obj", "iri"} THEN it.id ELSE EmptyIRI
GetType(it) == CASE it.k = "obj" -> it.type
                 [] it.k = "col" -> CollectionOfItems
                 [] OTHER -> ""

\* handlers.CollectionType.IRI: the IRI of collection t under the item at i
ColIRI(i, t) == i \o <<t>>


(***************************************************************************)
(* Sequences, byte order of keys, string prefixes.                         *)
(***************************************************************************)
Last(s) == s[Len(s)]
Front(s) == SubSeq(s, 1, Len(s) - 1)
SeqContains(s, e) == \E n \in 1..Len(s) : s[n] = e
Range(s) == {s[n] : n \in 1..Len(s)}
IsSegPrefix(p, s) == Len(p) <= Len(s) /\ SubSeq(s, 1, Len(p)) = p

RemoveAt(s, n) == SubSeq(s, 1, n - 1) \o SubSeq(s, n + 1, Len(s))

SegRank(seg) == CHOOSE n \in 1..Len(SegOrder) : SegOrder[n] = seg

RECURSIVE KeyLess(_, _)
KeyLess(a, b) ==
    IF a = <<>> THEN b # <<>>
    ELSE IF b = <<>> THEN FALSE
    ELSE IF a[1] = b[1] THEN KeyLess(Tail(a), Tail(b))
    ELSE SegRank(a[1]) < SegRank(b[1])

RECURSIVE SortKeys(_)
SortKeys(ks) ==
    IF ks = {} THEN <<>>
    ELSE LET m == CHOOSE x \in ks : \A y \in ks \ {x} : KeyLess(x, y)
         IN <<m>> \o SortKeys(ks \ {m})

\* the segments of the universe that are a proper string prefix of another one
StrPrefixes == {<<"1", "10">>}
StrHasPrefix(s, p) == s = p \/ <<p, s>> \in StrPrefixes

\* bytes.HasPrefix(k, p) on the '/'-joined forms of k and p
HasPrefix(k, p) ==
    \/ p = <<>>
    \/ /\ Len(p) <= Len(k)
       /\ SubSeq(k, 1, Len(p) - 1) = Front(p)
       /\ \/ k[Len(p)] = Last(p)
          \/ Len(k) = Len(p) /\ StrHasPrefix(k[Len(p)], Last(p))
          \/ Len(k) > Len(p) /\ StrHasPrefix(k[Len(p)], Last(p))

(***************************************************************************)
(* Encoding and decoding of the stored bytes.                              *)
(***************************************************************************)
\* jsonld.Marshal of an item
EncodeItem(it) == [t |-> "item", it |-> it]
\* jsonld.Marshal of a list of IRIs ("[]" is the empty list)
EncodeIRIs(iris) == [t |-> "iris", v |-> iris]
emptyCollection == EncodeIRIs(<<>>)

\* jsonld.Unmarshal(raw, &iris): a payload that is no list leaves iris empty
DecodeIRIs(raw) == IF raw.t = "iris" THEN raw.v ELSE <<>>

\* pub.UnmarshalJSON: an array of one element decodes to that element, an
\* empty array to nil; only two or more elements make an ItemCollection
loadItemRaw(raw) ==
    CASE raw.t = "item" -> raw.it
      [] raw.t = "iris" /\ Len(raw.v) = 0 -> NilIt
      [] raw.t = "iris" /\ Len(raw.v) = 1 -> IriIt(raw.v[1])
      [] OTHER -> ColIt([n \in 1..Len(raw.v) |-> IriIt(raw.v[n])])

(***************************************************************************)
(* Filters (fedbox/activitypub), as far as the repositories use them.      *)
(***************************************************************************)
\* an IRI used as the filter (loadOneFromPath(a.Object.GetLink()))
IRIFilter(i) == [ft |-> "iri", iri |-> i]
\* an ItemCollection used as the filter
ItemsFilter(items) == [ft |-> "items", items |-> items]
\* *ap.Filters
Filters(i, col, types) ==
    [ft |-> "filters", iri |-> i, collection |-> col, types |-> types,
     itemKey |-> <<>>, maxItems |-> 0, curPage |-> 0]

\* pathTyper.Type: the last recognised collection segment of the path
RECURSIVE Typer(_)
Typer(i) ==
    IF Len(i) <= 1 THEN ""
    ELSE IF Last(i) \in ActivityPubCollections \cup FedboxCollections THEN Last(i)
    ELSE Typer(Front(i))

\* ap.FiltersFromIRI; n and p are the maxItems and page of the IRI's query,
\* 0 when the query does not give them
FiltersFromIRI(i, n, p) == [Filters(i, Typer(i), {}) EXCEPT !.maxItems = n, !.curPage = p]
FilterLink(f) == IF f.ft = "items" THEN EmptyIRI ELSE f.iri

\* whether the filter asks for the members of a collection
IsCollectionFilter(f) ==
    /\ f.ft = "filters"
    /\ f.iri # EmptyIRI
    /\ Last(f.iri) \in ActivityPubCollections \cup FedboxCollections

\* ap.FilterIt: the item when it passes the filter, nil otherwise
FilterIt(it, f) ==
    IF IsNil(it) THEN it
    ELSE CASE f.ft = "iri" -> IF GetLink(it) = f.iri THEN it ELSE NilIt
           [] f.ft = "items" ->
                 IF \E n \in 1..Len(f.items) : GetLink(f.items[n]) = GetLink(it)
                 THEN it ELSE NilIt
           [] OTHER ->
                 IF /\ (f.types = {} \/ GetType(it) \in f.types)
                    /\ (IsCollectionFilter(f) \/ GetLink(it) = f.iri)
                 THEN it ELSE NilIt

(***************************************************************************)
(* Results and errors.  A panic (nil dereference) or an exhausted stack    *)
(* aborts the whole public operation.                                      *)
(***************************************************************************)
Fatal(e) == e \in {"panic", "overflow"}
Res(col, err, cache) == [col |-> col, err |-> err, cache |-> cache]
One(it, err, cache) == [it |-> it, err |-> err, cache |-> cache]

\* cache.Set / cache.Remove / cache.Get of fedbox/internal/cache
CacheSet(cache, i, it) == [j \in DOMAIN cache \cup {i} |-> IF j = i THEN it ELSE cache[j]]
CacheRemove(cache, i) == [j \in DOMAIN cache \ {i} |-> cache[j]]
CacheGet(cache, i) == IF i \in DOMAIN cache THEN cache[i] ELSE NilIt

\* tx.Set / tx.Delete on a key-value map
Put(db, k, v) == [j \in DOMAIN db \cup {k} |-> IF j = k THEN v ELSE db[j]]
Del(db, k) == [j \in DOMAIN db \ {k} |-> db[j]]

(***************************************************************************)
(* badger: storage/badger/repository.go                                    *)
(***************************************************************************)
\* a malformed IRI has no URL, and its path is empty
BadIRI == <<"%">>
itemPath(iri) == IF iri = BadIRI THEN <<>> ELSE iri
getObjectKey(p) == p \o <<objectKey>>
getMetadataKey(p) == p \o <<metaDataKey>>
isObjectKey(k) == k # <<>> /\ Last(k) = objectKey
b_isStorageCollectionKey(p) == p # <<>> /\ Last(p) \in FedboxCollections
\* handlers.ValidCollectionIRI: the last segment names an ActivityPub collection
ValidCollectionIRI(p) == p # <<>> /\ Last(p) \in ActivityPubCollections
ValidCollection(t) == t \in ActivityPubCollections

\* the '/' left in key k once base and "/" are trimmed from its front and
\* objectKey from its end, counted against depth
NeverTooDeep(base, k, depth) == FALSE

iterKeyIsTooDeep(base, k, depth) ==
    LET trimmed == IsSegPrefix(base, k) /\ Len(k) > Len(base)
        segs == IF trimmed THEN Len(k) - Len(base) ELSE Len(k)
    IN segs - 1 > depth

RECURSIVE b_loadFromPath(_, _, _, _)
RECURSIVE b_scan(_, _, _, _, _, _)
RECURSIVE b_loadFromIterator(_, _, _, _, _, _)
RECURSIVE b_loadItemsElements(_, _, _, _, _, _, _)
RECURSIVE b_loadItem(_, _, _, _, _)

\* the first item of a loaded list; an empty list is NotFound
FirstOf(r) ==
    IF r.err # "ok" THEN One(NilIt, r.err, r.cache)
    ELSE IF Len(r.col) = 0 THEN One(NilIt, "NotFound", r.cache)
    ELSE One(r.col[1], "ok", r.cache)

b_loadOneFromPath(db, cache, f, fuel) == FirstOf(b_loadFromPath(db, cache, f, fuel))

\* an activity with its object replaced by what a load found, nil when the
\* load found nothing
WithObject(it, r) == One([it EXCEPT !.object = r.it], IF Fatal(r.err) THEN r.err ELSE "ok", r.cache)

\* the object of a Create activity (or of any activity, under a filter on the
\* object) replaced by what loading its IRI finds
b_expandObject(db, cache, it, fuel) ==
    WithObject(it, b_loadOneFromPath(db, cache, IRIFilter(GetLink(it.object)), fuel))

\* whether loadItem dereferences the object of the activity
ExpandsObject(it) == GetType(it) = CreateType /\ ~IsNil(it.object) /\ ~IsObject(it.object)

b_loadItem(db, cache, path, f, fuel) ==
    LET Filtered(r2) == IF Fatal(r2.err) THEN r2 ELSE One(FilterIt(r2.it, f), "ok", r2.cache)
        Resolved(r1) ==
            IF Fatal(r1.err) THEN r1
            \* it.GetType() on the nil left by a failed load
            ELSE IF IsNil(r1.it) THEN One(NilIt, "panic", r1.cache)
            ELSE Filtered(IF ExpandsObject(r1.it) THEN b_expandObject(db, r1.cache, r1.it, fuel)
                          ELSE One(r1.it, "ok", r1.cache))
        Decoded(it) ==
            IF IsNil(it) THEN One(NilIt, "NotFound", cache)
            ELSE IF IsCollection(it) THEN One(it, "ok", cache)
            ELSE Resolved(IF IsLink(it) THEN b_loadOneFromPath(db, cache, IRIFilter(GetLink(it)), fuel)
                          ELSE One(it, "ok", cache))
    IN IF getObjectKey(path) \notin DOMAIN db THEN One(NilIt, "NotFound", cache)
       ELSE Decoded(loadItemRaw(db[getObjectKey(path)]))

b_loadItemsElements(db, cache, f, iris, n, col, fuel) ==
    LET Rest(r) ==
            IF Fatal(r.err) THEN Res(col, r.err, r.cache)
            ELSE b_loadItemsElements(db, r.cache, f, iris, n + 1,
                    IF r.err # "ok" \/ IsNil(r.it) THEN col ELSE Append(col, r.it), fuel)
    IN IF n > Len(iris) THEN Res(col, "ok", cache)
       ELSE Rest(b_loadItem(db, cache, itemPath(GetLink(iris[n])), f, fuel))

b_loadFromIterator(db, cache, col, f, val, fuel) ==
    LET Kept(r) ==
            IF Fatal(r.err) THEN Res(col, r.err, r.cache)
            ELSE Res(IF IsNil(FilterIt(r.it, f)) THEN col ELSE Append(col, FilterIt(r.it, f)),
                     "ok", CacheSet(r.cache, GetLink(r.it), r.it))
        Decoded(it) ==
            IF IsNil(it) THEN Res(col, "NotFound", cache)
            ELSE IF ~IsObject(it) /\ IsLink(it)
            THEN b_loadItemsElements(db, cache, f, <<it>>, 1, <<>>, fuel)
            ELSE IF IsCollection(it)
            THEN b_loadItemsElements(db, cache,
                     IF f.ft = "iri" THEN ItemsFilter(it.items) ELSE f,
                     it.items, 1, <<>>, fuel)
            ELSE Kept(IF GetType(it) = CreateType
                      \* a.Object.IsObject() on a nil object
                      THEN IF IsNil(it.object) THEN One(it, "panic", cache)
                           ELSE IF ~IsObject(it.object) THEN b_expandObject(db, cache, it, fuel)
                           ELSE One(it, "ok", cache)
                      ELSE One(it, "ok", cache))
    IN Decoded(loadItemRaw(val))

\* the loop of loadFromPath over the keys under the prefix, in key order
b_scan(db, cache, f, keys, n, acc) ==
    LET Rest(r) ==
            IF Fatal(r.err) THEN r
            ELSE b_scan(db, r.cache, f, keys, n + 1, [acc EXCEPT !.col = r.col])
    IN IF n > Len(keys) THEN Res(acc.col, "ok", cache)
       ELSE IF iterKeyIsTooDeep(itemPath(FilterLink(f)), keys[n], acc.depth) \/ ~isObjectKey(keys[n])
       THEN b_scan(db, cache, f, keys, n + 1, acc)
       ELSE IF ~IsNil(CacheGet(cache, FilterLink(f)))
       THEN b_scan(db, cache, f, keys, n + 1,
                   [acc EXCEPT !.col = Append(@, CacheGet(cache, FilterLink(f)))])
       ELSE Rest(b_loadFromIterator(db, cache, acc.col, f, db[keys[n]], acc.fuel))

\* the depth loadFromPath scans to
ScanDepth(fullPath) ==
    IF ValidCollectionIRI(fullPath) THEN 2
    ELSE IF b_isStorageCollectionKey(fullPath) THEN 1 ELSE 0

b_loadFromPath(db, cache, f, fuel) ==
    LET Scan(keys) ==
            IF keys = <<>> THEN Res(<<>>, "NotFound", cache)
            ELSE b_scan(db, cache, f, keys, 1,
                        [col |-> <<>>, depth |-> ScanDepth(itemPath(FilterLink(f))), fuel |-> fuel - 1])
    IN IF fuel = 0 THEN Res(<<>>, "overflow", cache)
       ELSE Scan(SortKeys({k \in DOMAIN db : HasPrefix(k, itemPath(FilterLink(f)))}))

\* createCollectionInPath: the collection's key is set to the empty list,
\* whatever it held
createCollectionInPath(db, it) == IF IsNil(it) THEN db ELSE Put(db, getObjectKey(itemPath(GetLink(it))), emptyCollection)

RECURSIVE b_createEach(_, _, _)
b_createEach(db, it, names) ==
    IF names = {} THEN db
    ELSE LET c == CHOOSE x \in names : TRUE
         IN b_createEach(createCollectionInPath(db, it.cols[c]), it, names \ {c})

\* the sub-collection fields createCollections visits for an item
DeclaredCols(it) ==
    IF IsNil(it) \/ ~IsObject(it) THEN {}
    ELSE {c \in (IF GetType(it) \in ActorTypes THEN OnActor ELSE {}) \cup OnObject : ~IsNil(it.cols[c])}

\* createCollections: the store, and the item with each declared
\* sub-collection field replaced by its link
b_createCollections(db, it) ==
    [db |-> b_createEach(db, it, DeclaredCols(it)),
     it |-> IF DeclaredCols(it) = {} THEN it
            ELSE [it EXCEPT !.cols = [c \in ActivityPubCollections |->
                     IF c \in DeclaredCols(it) THEN IriIt(GetLink(it.cols[c])) ELSE it.cols[c]]]]

\* a save that reports success and writes nothing
SaveSkipped(st, it) == [db |-> st.db, cache |-> st.cache, it |-> it, err |-> "ok"]

\* save: the write, then the cache entry, set whether or not the write failed
b_save(st, it) ==
    LET Write(cc) ==
            [db |-> Put(cc.db, getObjectKey(itemPath(GetLink(it))), EncodeItem(cc.it)),
             cache |-> CacheSet(st.cache, GetLink(it), cc.it),
             it |-> cc.it, err |-> "ok"]
    IN Write(b_createCollections(st.db, it))

\* the sub-collections deleteCollections removes for an item of that type
OwnedCols(it) ==
    IF GetType(it) \in ActorTypes THEN OnActor
    ELSE IF GetType(it) \in ObjectTypes THEN OnObject ELSE {}

RECURSIVE b_deleteEach(_, _, _)
b_deleteEach(st, i, names) ==
    IF names = {} THEN st
    ELSE LET c == CHOOSE x \in names : TRUE
         IN b_deleteEach([db |-> Del(st.db, getObjectKey(itemPath(ColIRI(i, c)))),
                          cache |-> CacheRemove(st.cache, ColIRI(i, c))], i, names \ {c})

\* deleteCollections (deleteCollectionFromPath for each owned collection)
b_deleteCollections(st, it) == b_deleteEach(st, GetLink(it), OwnedCols(it))

\* a delete that leaves an item of the former type in place of the Tombstone
FormerItem(i, former) == Obj(i, former, NoCols, NilIt, NilIt)

Tombstone(i, former) ==
    [k |-> "obj", id |-> i, type |-> TombstoneType, cols |-> NoCols,
     actor |-> NilIt, object |-> NilIt, formerType |-> former, to |-> <<PublicNS>>]

\* delete of an item that is no collection
b_delete(st, it) ==
    LET Bury(old) ==
            IF Fatal(old.err) THEN [db |-> st.db, cache |-> old.cache, it |-> it, err |-> old.err]
            \* old.GetType() on the nil left by a failed load
            ELSE IF IsNil(old.it) THEN [db |-> st.db, cache |-> old.cache, it |-> it, err |-> "panic"]
            ELSE b_save(b_deleteCollections([db |-> st.db, cache |-> old.cache], old.it),
                        Tombstone(GetLink(it), GetType(old.it)))
    IN Bury(b_loadOneFromPath(st.db, st.cache,
                              Filters(GetLink(it), "", IF IsObject(it) THEN {GetType(it)} ELSE {}),
                              MaxFuel))

\* IsLocalIRI: the IRI contains the base URL
IsLocalIRI(i) == i # <<>> /\ i[1] = Host

\* CollectionTypes.Split: the owner and the collection type of an IRI that ends
\* in a known collection name
SplitOwner(col) == IF col # <<>> /\ Last(col) \in ActivityPubCollections \cup FedboxCollections THEN Front(col) ELSE col
SplitType(col) == IF col # <<>> /\ Last(col) \in ActivityPubCollections \cup FedboxCollections THEN Last(col) ELSE ""

\* handlers.CollectionType.AddTo: whether collection t can be set on the item
\* (the item has that field, and the field is still nil)
CanAddColTo(t, i) ==
    /\ ~IsNil(i) /\ IsObject(i)
    /\ \/ t \in OnActor /\ GetType(i) \in ActorTypes
       \/ t \in OnObject /\ GetType(i) # TombstoneType
    /\ IsNil(i.cols[t])
WithCol(t, i) == [i EXCEPT !.cols[t] = IriIt(ColIRI(GetLink(i), t))]

\* an addition that forgets the members the collection had
OnlyIRI(iris, i) == <<i>>
\* the function AddTo hands to onCollection
AddIRI(iris, i) == IF SeqContains(iris, i) THEN iris ELSE Append(iris, i)
\* a removal that keeps every member
KeepIRIs(iris, i) == iris
\* the function RemoveFrom hands to onCollection: the first match goes
RemoveIRI(iris, i) ==
    IF ~SeqContains(iris, i) THEN iris
    ELSE RemoveAt(iris, CHOOSE n \in 1..Len(iris) : iris[n] = i /\ \A m \in 1..(n - 1) : iris[m] # i)
OnIRIs(fn, iris, i) == IF fn = "add" THEN AddIRI(iris, i) ELSE RemoveIRI(iris, i)

\* what onCollection rejects before it opens the store
CollectionArgsError(col, it) == IsNil(it) \/ col = <<>> \/ GetLink(it) = <<>> \/ ~IsLocalIRI(col)

b_onCollection(st, col, it, fn) ==
    IF CollectionArgsError(col, it) THEN [db |-> st.db, cache |-> st.cache, err |-> "Error"]
    ELSE LET rawKey == getObjectKey(itemPath(col))
             iris == IF rawKey \in DOMAIN st.db THEN DecodeIRIs(st.db[rawKey]) ELSE <<>>
         IN [db |-> Put(st.db, rawKey, EncodeIRIs(OnIRIs(fn, iris, GetLink(it)))),
             cache |-> st.cache, err |-> "ok"]

\* addCollectionOnObject: the owner is loaded and, when it lacks the
\* collection, saved again with it
b_addCollectionOnObject(st, col) ==
    IF ~ValidCollection(SplitType(col)) THEN [db |-> st.db, cache |-> st.cache, err |-> "ok"]
    ELSE LET Saved(sv) == [db |-> sv.db, cache |-> sv.cache, err |-> "ok"]
             Loaded(r) ==
                 IF Fatal(r.err) THEN [db |-> st.db, cache |-> r.cache, err |-> r.err]
                 ELSE IF CanAddColTo(SplitType(col), r.it)
                 THEN Saved(b_save([db |-> st.db, cache |-> r.cache], WithCol(SplitType(col), r.it)))
                 ELSE [db |-> st.db, cache |-> r.cache, err |-> "ok"]
         IN Loaded(b_loadOneFromPath(st.db, st.cache, IRIFilter(SplitOwner(col)), MaxFuel))

b_AddTo(st, col, it) ==
    LET Then(a) == IF Fatal(a.err) THEN a ELSE b_onCollection([db |-> a.db, cache |-> a.cache], col, it, "add")
    IN Then(b_addCollectionOnObject(st, col))

b_RemoveFrom(st, col, it) == b_onCollection(st, col, it, "remove")

b_Load(st, i, n, p) == b_loadFromPath(st.db, st.cache, FiltersFromIRI(i, n, p), MaxFuel)

b_Save(st, it) == b_save(st, it)

b_Delete(st, it) == b_delete(st, it)

b_Create(st, col) == [db |-> createCollectionInPath(st.db, IriIt(col)), cache |-> st.cache, err |-> "ok"]

\* bcrypt.GenerateFromPassword and bcrypt.CompareHashAndPassword
GenerateFromPassword(pw) == <<"bcrypt", pw>>
CompareHashAndPassword(hash, pw) == hash = <<"bcrypt", pw>>
\* the stored form of storage.Metadata
EncodeMeta(m) == [t |-> "meta", pw |-> m]
\* decoding of stored metadata; bytes that are none decode to nothing
DecodeMeta(raw) == IF raw.t = "meta" THEN raw.pw ELSE <<>>

b_PasswordSet(st, it, pw) ==
    [db |-> Put(st.db, getMetadataKey(itemPath(GetLink(it))), EncodeMeta(GenerateFromPassword(pw))),
     cache |-> st.cache, err |-> "ok"]

b_PasswordCheck(st, it, pw) ==
    LET k == getMetadataKey(itemPath(GetLink(it)))
    IN IF k \notin DOMAIN st.db THEN "Error"
       ELSE IF CompareHashAndPassword(DecodeMeta(st.db[k]), pw) THEN "ok" ELSE "Unauthorized"

(***************************************************************************)
(* boltdb: a tree of buckets under a root bucket.  bk is the set of bucket *)
(* paths (the empty path is the root bucket), kv the keys the buckets      *)
(* hold, d the state of the handle r.d.                                    *)
(***************************************************************************)
itemBucketPath(iri) == IF iri = BadIRI THEN <<>> ELSE iri
Prefixes(p) == {SubSeq(p, 1, n) : n \in 0..Len(p)}
bolt_isStorageCollectionKey(lst) == lst \in FedboxCollections \cup OnActor \cup OnObject
\* path.Base of the bucket path
PathBase(p) == IF p = <<>> THEN "." ELSE Last(p)

\* descendInBucket: with create the missing buckets are made, unless a key
\* already carries a bucket's name
descendInBucket(st, p, create) ==
    IF create
    THEN IF \E q \in Prefixes(p) : q \in DOMAIN st.kv
         THEN [bk |-> st.bk, ok |-> FALSE]
         ELSE [bk |-> st.bk \cup Prefixes(p), ok |-> TRUE]
    ELSE [bk |-> st.bk, ok |-> p \in st.bk]

\* the names a cursor over bucket b visits, in byte order
RECURSIVE SortSegs(_)
SortSegs(ns) ==
    IF ns = {} THEN <<>>
    ELSE LET m == CHOOSE x \in ns : \A y \in ns : SegRank(x) <= SegRank(y)
         IN <<m>> \o SortSegs(ns \ {m})
BucketKeys(st, b) ==
    SortSegs({k[Len(b) + 1] : k \in {j \in DOMAIN st.kv \cup st.bk :
                                         IsSegPrefix(b, j) /\ Len(j) = Len(b) + 1}})

RECURSIVE bolt_loadFromBucket(_, _, _)
RECURSIVE bolt_loadItem(_, _, _, _)
RECURSIVE bolt_loadItemsElements(_, _, _, _, _, _)
RECURSIVE bolt_iterate(_, _, _, _, _, _, _)

\* the first item of a loaded list; an empty list is NotFound
bolt_FirstOf(r) ==
    IF r.err # "ok" THEN [it |-> NilIt, err |-> r.err]
    ELSE IF Len(r.col) = 0 THEN [it |-> NilIt, err |-> "NotFound"]
    ELSE [it |-> r.col[1], err |-> "ok"]

bolt_loadOneFromBucket(st, f, fuel) == bolt_FirstOf(bolt_loadFromBucket(st, f, fuel))

bolt_loadItem(st, b, f, fuel) ==
    LET Filtered(it, r2) ==
            IF Fatal(r2.err) THEN [it |-> NilIt, err |-> r2.err]
            ELSE [it |-> FilterIt([it EXCEPT !.object = r2.it], f), err |-> "ok"]
        Resolved(r1) ==
            IF Fatal(r1.err) THEN r1
            \* it.GetType() on the nil left by a failed load
            ELSE IF IsNil(r1.it) THEN [it |-> NilIt, err |-> "panic"]
            ELSE Filtered(r1.it,
                          IF ExpandsObject(r1.it)
                          THEN bolt_loadOneFromBucket(st, IRIFilter(GetLink(r1.it.object)), fuel)
                          ELSE [it |-> r1.it.object, err |-> "ok"])
        Decoded(raw, it) ==
            IF raw.t = "empty" THEN [it |-> NilIt, err |-> "Error"]
            ELSE IF IsNil(it) THEN [it |-> NilIt, err |-> "NotFound"]
            ELSE IF IsCollection(it) THEN [it |-> it, err |-> "ok"]
            ELSE Resolved(IF IsLink(it) THEN bolt_loadOneFromBucket(st, IRIFilter(GetLink(it)), fuel)
                          ELSE [it |-> it, err |-> "ok"])
    IN IF b \o <<objectKey>> \notin DOMAIN st.kv THEN [it |-> NilIt, err |-> "ok"]
       ELSE Decoded(st.kv[b \o <<objectKey>>], loadItemRaw(st.kv[b \o <<objectKey>>]))

bolt_loadItemsElements(st, f, iris, n, col, fuel) ==
    LET Rest(r) ==
            IF Fatal(r.err) THEN [col |-> col, err |-> r.err]
            ELSE bolt_loadItemsElements(st, f, iris, n + 1,
                    IF r.err # "ok" \/ IsNil(r.it) THEN col ELSE Append(col, r.it), fuel)
    IN IF n > Len(iris) THEN [col |-> col, err |-> "ok"]
       ELSE IF ~descendInBucket(st, itemBucketPath(GetLink(iris[n])), FALSE).ok
       THEN bolt_loadItemsElements(st, f, iris, n + 1, col, fuel)
       ELSE Rest(bolt_loadItem(st, itemBucketPath(GetLink(iris[n])), f, fuel))

\* iterateInBucket: the loop over the keys of bucket b
bolt_iterate(st, b, f, keys, n, col, fuel) ==
    LET Members(e) ==
            IF Fatal(e.err) THEN [col |-> col, err |-> e.err]
            ELSE bolt_iterate(st, b, f, keys, n + 1, col \o e.col, fuel)
        Rest(r) ==
            IF Fatal(r.err) THEN [col |-> col, err |-> r.err]
            ELSE IF r.err # "ok" \/ IsNil(r.it)
            THEN bolt_iterate(st, b, f, keys, n + 1, col, fuel)
            ELSE IF IsCollection(r.it)
            THEN Members(bolt_loadItemsElements(st, f, r.it.items, 1, <<>>, fuel))
            ELSE bolt_iterate(st, b, f, keys, n + 1, Append(col, r.it), fuel)
        Visit(isObjKey, ob) ==
            IF ~isObjKey /\ ob \notin st.bk
            THEN bolt_iterate(st, b, f, keys, n + 1, col, fuel)
            ELSE Rest(bolt_loadItem(st, ob, f, fuel))
    IN IF n > Len(keys) THEN [col |-> col, err |-> "ok"]
       ELSE Visit(keys[n] \in {objectKey, metaDataKey},
                  IF keys[n] \in {objectKey, metaDataKey} THEN b ELSE b \o <<keys[n]>>)

iterateInBucket(st, b, f, fuel) == bolt_iterate(st, b, f, BucketKeys(st, b), 1, <<>>, fuel)

bolt_loadFromBucket(st, f, fuel) ==
    LET Found(r) ==
            IF r.err # "ok" THEN [col |-> <<>>, err |-> r.err]
            ELSE IF IsNil(r.it) THEN [col |-> <<>>, err |-> "NotFound"]
            ELSE IF IsCollection(r.it)
            THEN bolt_loadItemsElements(st,
                     IF f.ft = "iri" THEN ItemsFilter(r.it.items) ELSE f,
                     r.it.items, 1, <<>>, fuel - 1)
            ELSE [col |-> <<r.it>>, err |-> "ok"]
        In(fullPath) ==
            IF ~descendInBucket(st, fullPath, FALSE).ok THEN [col |-> <<>>, err |-> "NotFound"]
            ELSE IF bolt_isStorageCollectionKey(PathBase(fullPath))
            THEN iterateInBucket(st, fullPath, f, fuel - 1)
            ELSE Found(bolt_loadItem(st, fullPath, f, fuel - 1))
    IN IF fuel = 0 THEN [col |-> <<>>, err |-> "overflow"]
       ELSE IF <<>> \notin st.bk THEN [col |-> <<>>, err |-> "Error"]
       ELSE In(itemBucketPath(FilterLink(f)))

\* createCollectionInBucket for each declared sub-collection: the bucket is
\* named after the last segment of the collection IRI; Following is handed
\* the Liked IRI
BoltColTarget(c) == IF c = "following" THEN "liked" ELSE c
BoltColOk(st, b, c) == b \o <<BoltColTarget(c)>> \notin DOMAIN st.kv
createCollectionsInBucket(st, b, it) ==
    [bk |-> st.bk \cup {b \o <<BoltColTarget(c)>> : c \in {x \in DeclaredCols(it) : BoltColOk(st, b, x)}},
     it |-> IF DeclaredCols(it) = {} THEN it
            ELSE [it EXCEPT !.cols = [c \in ActivityPubCollections |->
                     IF c \in DeclaredCols(it)
                     THEN IF BoltColOk(st, b, c) THEN IriIt(ColIRI(GetLink(it), BoltColTarget(c))) ELSE NilIt
                     ELSE it.cols[c]]]]

WithRoot(st) == [st EXCEPT !.bk = @ \cup {<<>>}]

bolt_save(st, it) ==
    LET b == itemBucketPath(GetLink(it))
        d == descendInBucket(WithRoot(st), b, TRUE)
        cc == createCollectionsInBucket([st EXCEPT !.bk = d.bk], b, it)
    IN IF ~d.ok THEN [st |-> st, it |-> it, err |-> "Error"]
       ELSE [st |-> [st EXCEPT !.bk = cc.bk, !.kv = Put(st.kv, b \o <<objectKey>>, EncodeItem(cc.it))],
             it |-> cc.it, err |-> "ok"]

\* deleteCollections: every DeleteBucket is given the full IRI as the bucket
\* name and fails, which rolls the transaction back; for an item owning no
\* collections the descent commits
bolt_deleteCollections(st, it) ==
    LET d == descendInBucket(WithRoot(st), itemBucketPath(GetLink(it)), TRUE)
    IN IF OwnedCols(it) # {} \/ ~d.ok THEN st ELSE [st EXCEPT !.bk = d.bk]

bolt_delete(st, it) ==
    LET Bury(old) ==
            IF Fatal(old.err) THEN [st |-> st, it |-> it, err |-> old.err]
            \* old.GetType() on the nil left by a failed load, deleteCollections done
            ELSE IF IsNil(old.it) THEN [st |-> bolt_deleteCollections(st, it), it |-> it, err |-> "panic"]
            ELSE bolt_save(bolt_deleteCollections(st, it), Tombstone(GetLink(it), GetType(old.it)))
    IN Bury(bolt_loadOneFromBucket(st, Filters(GetLink(it), "", IF IsObject(it) THEN {GetType(it)} ELSE {}),
                                   MaxFuel))

bolt_onCollection(st, col, it, fn) ==
    IF CollectionArgsError(col, it) THEN [st |-> st, err |-> "Error"]
    ELSE LET o == [st EXCEPT !.d = "closed"]
             b == itemBucketPath(col)
             d == descendInBucket(o, b, TRUE)
             iris == IF b \o <<objectKey>> \in DOMAIN o.kv THEN DecodeIRIs(o.kv[b \o <<objectKey>>]) ELSE <<>>
         IN IF <<>> \notin o.bk \/ ~d.ok THEN [st |-> o, err |-> "Error"]
            ELSE [st |-> [o EXCEPT !.bk = d.bk,
                                   !.kv = Put(o.kv, b \o <<objectKey>>, EncodeIRIs(OnIRIs(fn, iris, GetLink(it))))],
                  err |-> "ok"]

\* addCollectionOnObject loads the owner through the handle as the last
\* operation left it: closed, the load fails and nothing is added; never
\* opened, the nil handle is dereferenced
bolt_AddTo(st, col, it) ==
    IF ValidCollection(SplitType(col)) /\ st.d = "nil" THEN [st |-> st, err |-> "panic"]
    ELSE bolt_onCollection(st, col, it, "add")

bolt_RemoveFrom(st, col, it) == bolt_onCollection(st, col, it, "remove")

\* the handle is closed when the call returns
Closed(st, r) == [st |-> [st EXCEPT !.d = "closed"], col |-> r.col, err |-> r.err]

bolt_Load(st, i, n, p) == Closed(st, bolt_loadFromBucket(st, FiltersFromIRI(i, n, p), MaxFuel))

bolt_Save(st, it) == bolt_save([st EXCEPT !.d = "closed"], it)

bolt_Delete(st, it) == bolt_delete([st EXCEPT !.d = "closed"], it)

EmptyBytes == [t |-> "empty"]
bolt_Create(st, col) ==
    LET o == [st EXCEPT !.d = "closed"]
        cPath == itemBucketPath(col)
        d == descendInBucket(WithRoot(o), cPath, TRUE)
        c == cPath \o <<PathBase(cPath)>>
    IN IF ~d.ok \/ c \in d.bk THEN [st |-> o, err |-> "Error"]
       ELSE [st |-> [o EXCEPT !.bk = d.bk, !.kv = Put(o.kv, c, EmptyBytes)], err |-> "ok"]

bolt_PasswordSet(st, it, pw) ==
    LET o == [st EXCEPT !.d = "closed"]
        b == itemBucketPath(GetLink(it))
        d == descendInBucket(WithRoot(o), b, TRUE)
    IN IF ~d.ok THEN [st |-> o, err |-> "Error"]
       ELSE [st |-> [o EXCEPT !.bk = d.bk,
                              !.kv = Put(o.kv, b \o <<metaDataKey>>, EncodeMeta(GenerateFromPassword(pw)))],
             err |-> "ok"]

bolt_PasswordCheck(st, it, pw) ==
    LET b == itemBucketPath(GetLink(it))
    IN IF <<>> \notin st.bk \/ ~descendInBucket(st, b, FALSE).ok THEN "Error"
       ELSE IF b \o <<metaDataKey>> \notin DOMAIN st.kv THEN "Error"
       ELSE IF CompareHashAndPassword(DecodeMeta(st.kv[b \o <<metaDataKey>>]), pw) THEN "ok" ELSE "Unauthorized"

(***************************************************************************)
(* sqlite: the tables objects, actors and activities hold one row per IRI, *)
(* kept here in the order of their published column; collections holds one *)
(* row per (collection, member) insert.                                     *)
(***************************************************************************)
Tables == {"objects", "actors", "activities"}
MandatoryCollections == {"inbox", "outbox", "replies"}
NoMeta == [t |-> "null"]
Row(it) == [iri |-> GetLink(it), type |-> GetType(it), raw |-> EncodeItem(it), meta |-> NoMeta]

getCollectionTable(typ) ==
    CASE typ \in {"followers", "following", "actors"} -> "actors"
      [] typ \in {"inbox", "outbox", "shares", "likes", "activities"} -> "activities"
      [] OTHER -> "objects"

\* the table of an IRI: by its last segment when that names a collection, by
\* the one before it otherwise
getCollectionTypeFromIRI(i) ==
    IF i = <<>> THEN "objects"
    ELSE IF Last(i) \in FedboxCollections \cup ActivityPubCollections THEN getCollectionTable(Last(i))
    ELSE IF Len(i) = 1 THEN "objects"
    ELSE getCollectionTable(i[Len(i) - 1])

\* "iri" LIKE %v%
Contains(i, v) == \E a \in 0..(Len(i) - Len(v)) : SubSeq(i, a + 1, a + Len(v)) = v

\* getWhereClauses: whether there is a clause on iri, and the rows it keeps
HasIRIClause(f) == f.itemKey # <<>> \/ f.iri # <<>>
IRIClause(f, i) ==
    IF f.itemKey # <<>> THEN SeqContains(f.itemKey, i)
    ELSE IF Last(f.iri) \in FedboxCollections \cup ActivityPubCollections THEN Contains(i, f.iri)
    ELSE i = f.iri
Where(f, row) ==
    /\ f.types = {} \/ row.type \in f.types
    /\ IF HasIRIClause(f) THEN IRIClause(f, row.iri) ELSE f.collection \in FedboxCollections

\* getLimit: LIMIT maxItems OFFSET maxItems * (page - 1)
getLimit(f, rows) ==
    IF f.maxItems = 0 THEN rows
    ELSE LET off == IF f.curPage > 0 THEN f.maxItems * (f.curPage - 1) ELSE 0
         IN SubSeq(rows, off + 1, IF off + f.maxItems < Len(rows) THEN off + f.maxItems ELSE Len(rows))

RECURSIVE SelectRows(_, _, _)
SelectRows(rows, f, n) ==
    IF n > Len(rows) THEN <<>>
    ELSE (IF Where(f, rows[n]) THEN <<rows[n]>> ELSE <<>>) \o SelectRows(rows, f, n + 1)

RECURSIVE CacheSetAll(_, _, _)
CacheSetAll(cache, items, n) ==
    IF n > Len(items) THEN cache
    ELSE CacheSetAll(IF IsObject(items[n]) THEN CacheSet(cache, GetLink(items[n]), items[n]) ELSE cache,
                     items, n + 1)

\* the items the rows decode to
Items(rows) == [n \in 1..Len(rows) |-> loadItemRaw(rows[n].raw)]
Cached(cache, ret) == [col |-> ret, err |-> "ok", cache |-> CacheSetAll(cache, ret, 1)]

s_loadFromOneTable(st, table, f) == Cached(st.cache, Items(getLimit(f, SelectRows(st[table], f, 1))))

\* loadFromThreeTables: objects, actors, and actors once more
\* a load continued on the cache the one before it left, its items appended
AndThen(r, next) == [col |-> r.col \o next.col, err |-> next.err, cache |-> next.cache]

s_loadFromThreeTables(st, f) ==
    LET Third(r) == AndThen(r, s_loadFromOneTable([st EXCEPT !.cache = r.cache], "actors", f))
        Second(r) == Third(AndThen(r, s_loadFromOneTable([st EXCEPT !.cache = r.cache], "actors", f)))
    IN Second(s_loadFromOneTable(st, "objects", f))

\* the member rows of the collections table the iri clause keeps
RECURSIVE ColRows(_, _, _)
ColRows(rows, f, n) ==
    IF n > Len(rows) THEN <<>>
    ELSE (IF IRIClause(f, rows[n].iri) THEN <<rows[n]>> ELSE <<>>) \o ColRows(rows, f, n + 1)

\* the members found in the collections table that belong to table t
RECURSIVE KeysFor(_, _, _)
KeysFor(rows, t, n) ==
    IF n > Len(rows) THEN <<>>
    ELSE (IF getCollectionTypeFromIRI(rows[n].iri) = t THEN <<rows[n].object>> ELSE <<>>)
         \o KeysFor(rows, t, n + 1)

s_subLoad(st, f, t) ==
    LET Keyed(keys) ==
            IF keys = <<>> THEN [col |-> <<>>, err |-> "ok", cache |-> st.cache]
            ELSE s_loadFromOneTable(st, t, [f EXCEPT !.iri = <<>>, !.collection = t, !.itemKey = keys])
    IN Keyed(KeysFor(getLimit(f, ColRows(st.collections, f, 1)), t, 1))

s_loadFromDb(st, f) ==
    LET Third(r) == AndThen(r, s_subLoad([st EXCEPT !.cache = r.cache], f, "objects"))
        Second(r) == Third(AndThen(r, s_subLoad([st EXCEPT !.cache = r.cache], f, "actors")))
    IN IF SelectRows(st[getCollectionTable(f.collection)], f, 1) # <<>>
       THEN s_loadFromOneTable(st, getCollectionTable(f.collection), f)
       ELSE IF ~HasIRIClause(f) THEN [col |-> <<>>, err |-> "NotFound", cache |-> st.cache]
       ELSE IF /\ ColRows(st.collections, f, 1) = <<>>
               /\ f.collection \in ActivityPubCollections
               /\ f.collection \notin MandatoryCollections
       THEN [col |-> <<>>, err |-> "NotFound", cache |-> st.cache]
       ELSE Second(s_subLoad(st, f, "activities"))

\* flattenCollections: every sub-collection field is reduced to its link
FlattenToIRI(it) == IF IsNil(it) THEN it ELSE IF IsCollection(it) THEN it ELSE IriIt(GetLink(it))
flattenCollections(it) ==
    IF IsNil(it) \/ ~IsObject(it) THEN it
    ELSE [it EXCEPT !.cols = [c \in ActivityPubCollections |->
             IF c \in OnObject \/ GetType(it) \in ActorTypes THEN FlattenToIRI(it.cols[c]) ELSE it.cols[c]]]

\* the table save picks for an item
SaveTable(it) ==
    IF GetType(it) \in ActivityTypes THEN "activities"
    ELSE IF GetType(it) \in ActorTypes THEN "actors"
    ELSE IF GetType(it) = TombstoneType
    THEN IF \E n \in 1..Len(GetLink(it)) : GetLink(it)[n] = "activities" THEN "activities"
         ELSE IF \E n \in 1..Len(GetLink(it)) : GetLink(it)[n] = "actors" THEN "actors"
         ELSE "objects"
    ELSE "objects"

\* INSERT OR REPLACE: the row with this iri, if any, goes, and the new row is
\* the latest published
RECURSIVE WithoutIRI(_, _)
WithoutIRI(rows, i) ==
    IF rows = <<>> THEN <<>>
    ELSE (IF rows[1].iri = i THEN <<>> ELSE <<rows[1]>>) \o WithoutIRI(Tail(rows), i)
InsertOrReplace(rows, row) == Append(WithoutIRI(rows, row.iri), row)

\* whether save also records the item as a member of the collection it lies in
InCollectionPath(i) == Len(i) >= 2 /\ ValidCollection(i[Len(i) - 1])

s_save(st, it) ==
    LET Insert(flat) ==
            [st |-> [st EXCEPT ![SaveTable(flat)] = InsertOrReplace(@, Row(flat)),
                               !.collections = IF InCollectionPath(GetLink(it))
                                               THEN Append(@, [iri |-> Front(GetLink(it)), object |-> GetLink(it)])
                                               ELSE @,
                               !.cache = CacheSet(@, GetLink(it), flat)],
             it |-> flat, err |-> "ok"]
    IN Insert(flattenCollections(it))

s_Save(st, it) == s_save(st, it)

s_Load(st, i, n, p) == s_loadFromDb(st, FiltersFromIRI(i, n, p))

\* Create saves the collection object like any other item
OrderedCollectionType == "OrderedCollection"
s_Create(st, col) == s_save(st, Obj(col, OrderedCollectionType, NoCols, NilIt, NilIt))

\* AddTo: a plain INSERT
s_AddTo(st, col, it) ==
    [st |-> [st EXCEPT !.collections = Append(@, [iri |-> col, object |-> GetLink(it)])], err |-> "ok"]

\* RemoveFrom: every row of the pair goes
RECURSIVE WithoutPair(_, _, _)
WithoutPair(rows, col, i) ==
    IF rows = <<>> THEN <<>>
    ELSE (IF rows[1].iri = col /\ rows[1].object = i THEN <<>> ELSE <<rows[1]>>)
         \o WithoutPair(Tail(rows), col, i)
s_RemoveFrom(st, col, it) ==
    [st |-> [st EXCEPT !.collections = WithoutPair(@, col, GetLink(it))], err |-> "ok"]

\* Delete: the former type is the type of the item handed in, or for a bare
\* IRI the type of the list loadFromThreeTables returns
s_Delete(st, it) ==
    LET Bury(old) == s_save([st EXCEPT !.cache = old.cache], Tombstone(GetLink(it), GetType(ColIt(old.col))))
    IN IF IsObject(it) THEN s_save(st, Tombstone(GetLink(it), GetType(it)))
       ELSE Bury(s_loadFromThreeTables(st, Filters(GetLink(it), "", {})))

\* saveMetadataToTable: UPDATE ... SET meta WHERE iri; no row, no change
RECURSIVE SetMeta(_, _, _)
SetMeta(rows, i, m) ==
    IF rows = <<>> THEN <<>>
    ELSE <<IF rows[1].iri = i THEN [rows[1] EXCEPT !.meta = m] ELSE rows[1]>> \o SetMeta(Tail(rows), i, m)
saveMetadataToTable(st, i, m) == [st EXCEPT ![getCollectionTypeFromIRI(i)] = SetMeta(@, i, m)]

s_PasswordSet(st, it, pw) ==
    [st |-> saveMetadataToTable(st, GetLink(it), EncodeMeta(GenerateFromPassword(pw))), err |-> "ok"]

\* loadMetadataFromTable then the comparison; a missing row and a NULL meta
\* both fail before the comparison
s_PasswordCheck(st, it, pw) ==
    LET rows == SelectSeq(st[getCollectionTypeFromIRI(GetLink(it))], LAMBDA r : r.iri = GetLink(it))
    IN IF rows = <<>> THEN "Error"
       ELSE IF rows[1].meta = NoMeta THEN "Error"
       ELSE IF CompareHashAndPassword(DecodeMeta(rows[1].meta), pw) THEN "ok" ELSE "Unauthorized"

(***************************************************************************)
(* The state machine.  The three repositories receive the same calls; last *)
(* records the latest call and what each of them answered.                 *)
(***************************************************************************)
VARIABLES badger, bolt, sqlite, last, calls, tombs, conc, web
stores == <<badger, bolt, sqlite>>
vars == <<stores, last, calls, tombs, conc, web>>

Backends == {"b", "bo", "s"}

MaxCalls == 4     \* the calls a run makes

EmptyMap == [j \in {} |-> NilIt]

ActorCols == [c \in ActivityPubCollections |-> IF c \in OnActor THEN IriIt(ColIRI(ActorIRI, c)) ELSE NilIt]
ActorBare == Obj(ActorIRI, "Person", NoCols, NilIt, NilIt)
ActorFull == Obj(ActorIRI, "Person", ActorCols, NilIt, NilIt)
Note == Obj(ObjectIRI, "Note", NoCols, NilIt, NilIt)
CreateAct == Obj(ActivityIRI, CreateType, NoCols, IriIt(ActorIRI), IriIt(ObjectIRI))
Outbox == ColIRI(ActorIRI, "outbox")
Followers == ColIRI(ActorIRI, "followers")

SaveItems == {ActorFull, Note, CreateAct}
DeleteItems == {ActorFull, IriIt(ActorIRI), Note, CreateAct}
Collections == {Outbox, Followers}
\* the (collection, member) pairs AddTo and RemoveFrom are called with
Memberships == {<<Outbox, IriIt(ActivityIRI)>>, <<Outbox, IriIt(ObjectIRI)>>, <<Followers, IriIt(ObjectIRI)>>}
ItemIRIs == {ActorIRI, ObjectIRI}
SetPasswords == {"s"}
Passwords == {"s", "t"}
MaxPage == 2
\* the queries Load is called with: an IRI, maxItems and page
Queries == {<<i, 0, 0>> : i \in ItemIRIs \cup Collections} \cup {<<Outbox, 1, p>> : p \in 1..MaxPage}

\* the goroutines that share one repository value in the concurrent runs,
\* and their state when no such run is under way
Procs == {"p", "q"}
Idle == [on |-> "none", d |-> "nil", live |-> {},
         pc |-> [p \in Procs |-> "done"], fn |-> [p \in Procs |-> ""],
         via |-> [p \in Procs |-> "none"], res |-> [p \in Procs |-> ""]]

\* the requests of the HTTP handlers: GETs of the actor's outbox and one POST
\* of an activity to it
Gets == {"g1", "g2", "g3"}
NoWeb == [cache |-> [x \in {"b", "bo", "s"} |-> <<>>],
          pc |-> [g \in Gets |-> "none"], got |-> [g \in Gets |-> [x \in {"b", "bo", "s"} |-> <<>>]],
          post |-> "none", late |-> {}]

NoRes == [err |-> "", col |-> <<>>]
Call(op, iri, it, pw, n, p, rb, rbo, rs) ==
    [op |-> op, iri |-> iri, it |-> it, pw |-> pw, n |-> n, p |-> p, b |-> rb, bo |-> rbo, s |-> rs]
R(err, col) == [err |-> err, col |-> col]

Init ==
    /\ badger = [db |-> EmptyMap, cache |-> EmptyMap]
    /\ bolt = [bk |-> {}, kv |-> EmptyMap, d |-> "nil"]
    /\ sqlite = [objects |-> <<>>, actors |-> <<>>, activities |-> <<>>, collections |-> <<>>,
                 cache |-> EmptyMap]
    /\ last = Call("none", <<>>, NilIt, "", 0, 0, NoRes, NoRes, NoRes)
    /\ calls = 0
    /\ tombs = [x \in Backends |-> {}]
    /\ conc = Idle
    /\ web = NoWeb

\* every call counts towards the calls of the run, and runs alone
Tick == calls < MaxCalls /\ calls' = calls + 1 /\ UNCHANGED <<conc, web>>

Save(it) ==
    LET Commit(rb, rbo, rs) ==
            /\ Tick
            /\ badger' = [db |-> rb.db, cache |-> rb.cache]
            /\ bolt' = rbo.st
            /\ sqlite' = rs.st
            /\ last' = Call("Save", GetLink(it), it, "", 0, 0,
                            R(rb.err, <<rb.it>>), R(rbo.err, <<rbo.it>>), R(rs.err, <<rs.it>>))
            /\ tombs' = [x \in Backends |-> tombs[x] \ {GetLink(it)}]
    IN Commit(b_Save(badger, it), bolt_Save(bolt, it), s_Save(sqlite, it))

Load(i, n, p) ==
    LET Commit(rb, rbo, rs) ==
            /\ Tick
            /\ badger' = [badger EXCEPT !.cache = rb.cache]
            /\ bolt' = rbo.st
            /\ sqlite' = [sqlite EXCEPT !.cache = rs.cache]
            /\ last' = Call("Load", i, NilIt, "", n, p,
                            R(rb.err, rb.col), R(rbo.err, rbo.col), R(rs.err, rs.col))
            /\ UNCHANGED tombs
    IN Commit(b_Load(badger, i, n, p), bolt_Load(bolt, i, n, p), s_Load(sqlite, i, n, p))

Create(col) ==
    LET Commit(rb, rbo, rs) ==
            /\ Tick
            /\ badger' = [db |-> rb.db, cache |-> rb.cache]
            /\ bolt' = rbo.st
            /\ sqlite' = rs.st
            /\ last' = Call("Create", col, NilIt, "", 0, 0,
                            R(rb.err, <<>>), R(rbo.err, <<>>), R(rs.err, <<>>))
            /\ UNCHANGED tombs
    IN Commit(b_Create(badger, col), bolt_Create(bolt, col), s_Create(sqlite, col))

AddTo(col, it) ==
    LET Commit(rb, rbo, rs) ==
            /\ Tick
            /\ Len(sqlite.collections) < MaxRows
            /\ badger' = [db |-> rb.db, cache |-> rb.cache]
            /\ bolt' = rbo.st
            /\ sqlite' = rs.st
            /\ last' = Call("AddTo", col, it, "", 0, 0,
                            R(rb.err, <<>>), R(rbo.err, <<>>), R(rs.err, <<>>))
            /\ UNCHANGED tombs
    IN Commit(b_AddTo(badger, col, it), bolt_AddTo(bolt, col, it), s_AddTo(sqlite, col, it))

RemoveFrom(col, it) ==
    LET Commit(rb, rbo, rs) ==
            /\ Tick
            /\ badger' = [db |-> rb.db, cache |-> rb.cache]
            /\ bolt' = rbo.st
            /\ sqlite' = rs.st
            /\ last' = Call("RemoveFrom", col, it, "", 0, 0,
                            R(rb.err, <<>>), R(rbo.err, <<>>), R(rs.err, <<>>))
            /\ UNCHANGED tombs
    IN Commit(b_RemoveFrom(badger, col, it), bolt_RemoveFrom(bolt, col, it), s_RemoveFrom(sqlite, col, it))

Delete(it) ==
    LET Commit(rb, rbo, rs) ==
            /\ Tick
            /\ badger' = [db |-> rb.db, cache |-> rb.cache]
            /\ bolt' = rbo.st
            /\ sqlite' = rs.st
            /\ last' = Call("Delete", GetLink(it), it, "", 0, 0,
                            R(rb.err, <<rb.it>>), R(rbo.err, <<rbo.it>>), R(rs.err, <<rs.it>>))
            /\ tombs' = [x \in Backends |->
                            IF (x = "b" /\ rb.err = "ok") \/ (x = "bo" /\ rbo.err = "ok") \/ (x = "s" /\ rs.err = "ok")
                            THEN tombs[x] \cup {GetLink(it)} ELSE tombs[x]]
    IN Commit(b_Delete(badger, it), bolt_Delete(bolt, it), s_Delete(sqlite, it))

PasswordSet(it, pw) ==
    LET Commit(rb, rbo, rs) ==
            /\ Tick
            /\ badger' = [db |-> rb.db, cache |-> rb.cache]
            /\ bolt' = rbo.st
            /\ sqlite' = rs.st
            /\ last' = Call("PasswordSet", GetLink(it), it, pw, 0, 0,
                            R(rb.err, <<>>), R(rbo.err, <<>>), R(rs.err, <<>>))
            /\ UNCHANGED tombs
    IN Commit(b_PasswordSet(badger, it, pw), bolt_PasswordSet(bolt, it, pw), s_PasswordSet(sqlite, it, pw))

PasswordCheck(it, pw) ==
    /\ Tick
    /\ badger' = badger
    /\ bolt' = [bolt EXCEPT !.d = "closed"]
    /\ sqlite' = sqlite
    /\ last' = Call("PasswordCheck", GetLink(it), it, pw, 0, 0,
                    R(b_PasswordCheck(badger, it, pw), <<>>),
                    R(bolt_PasswordCheck(bolt, it, pw), <<>>),
                    R(s_PasswordCheck(sqlite, it, pw), <<>>))
    /\ UNCHANGED tombs

Next ==
    \/ \E it \in SaveItems : Save(it)
    \/ \E q \in Queries : Load(q[1], q[2], q[3])
    \/ Create(Outbox)
    \/ \E m \in Memberships : AddTo(m[1], m[2])
    \/ \E m \in Memberships : RemoveFrom(m[1], m[2])
    \/ \E it \in DeleteItems : Delete(it)
    \/ \E pw \in SetPasswords : PasswordSet(IriIt(ActorIRI), pw)
    \/ \E pw \in Passwords : PasswordCheck(IriIt(ActorIRI), pw)

Spec == Init /\ [][Next]_vars

(***************************************************************************)
(* What a caller observes of a repository in the current state.            *)
(***************************************************************************)
\* Load(i) with query maxItems = n, page = p on each repository
\* (S is the three stores)
Answer(r) == R(r.err, r.col)
LoadIn(S, x, i, n, p) ==
    CASE x = "b" -> Answer(b_Load(S[1], i, n, p))
      [] x = "bo" -> Answer(bolt_Load(S[2], i, n, p))
      [] OTHER -> Answer(s_Load(S[3], i, n, p))
LoadOn(x, i, n, p) == LoadIn(stores, x, i, n, p)

\* the member IRIs a repository holds for collection col, as stored
b_Members(st, col) ==
    IF getObjectKey(itemPath(col)) \in DOMAIN st.db THEN DecodeIRIs(st.db[getObjectKey(itemPath(col))]) ELSE <<>>
bolt_Members(st, col) ==
    IF itemBucketPath(col) \o <<objectKey>> \in DOMAIN st.kv
    THEN DecodeIRIs(st.kv[itemBucketPath(col) \o <<objectKey>>]) ELSE <<>>
s_Members(st, col) ==
    LET rows == SelectSeq(st.collections, LAMBDA r : r.iri = col)
    IN [n \in 1..Len(rows) |-> rows[n].object]
MembersIn(S, x, col) ==
    CASE x = "b" -> b_Members(S[1], col)
      [] x = "bo" -> bolt_Members(S[2], col)
      [] OTHER -> s_Members(S[3], col)
MembersOn(x, col) == MembersIn(stores, x, col)
Count(seq, e) == Cardinality({n \in 1..Len(seq) : seq[n] = e})

\* the latest call and its success on a repository
LastOk(op, x) == last.op = op /\ last[x].err = "ok"

\* the item a load returned: the list itself, as the caller receives it
Returned(r) == ColIt(r.col)
\* a load that found exactly one item with this IRI and type
FoundOne(r, i, t) == r.err = "ok" /\ Len(r.col) = 1 /\ GetLink(r.col[1]) = i /\ GetType(r.col[1]) = t
\* a load whose returned item itself has this IRI and type
ReturnedIs(r, i, t) == r.err = "ok" /\ GetLink(Returned(r)) = i /\ GetType(Returned(r)) = t

b_After(r, col) == [err |-> r.err, members |-> b_Members(r, col)]
bolt_After(r, col) == [err |-> r.err, members |-> bolt_Members(r.st, col)]
s_After(r, col) == [err |-> r.err, members |-> s_Members(r.st, col)]
\* a call that succeeds and leaves e in the members exactly n times
Leaves(after, e, n) == after.err = "ok" /\ Count(after.members, e) = n
\* a call that, if it succeeds, leaves e out of the members
LeavesOut(after, e) == after.err = "ok" => Count(after.members, e) = 0

AddToOn(x, col, it) ==
    CASE x = "b" -> b_After(b_AddTo(badger, col, it), col)
      [] x = "bo" -> bolt_After(bolt_AddTo(bolt, col, it), col)
      [] OTHER -> s_After(s_AddTo(sqlite, col, it), col)

AddToTwiceOn(x) ==
    LastOk("AddTo", x) =>
        Leaves(AddToOn(x, last.iri, last.it), GetLink(last.it), 1)

\* C2: on every repository, after a successful AddTo(c, x) a second
\* AddTo(c, x) succeeds and c holds x exactly once.
C2_AddToTwiceOneEntry == \A x \in Backends : AddToTwiceOn(x)

(***************************************************************************)
(* C3  AddTo then RemoveFrom                                               *)
(***************************************************************************)
RemoveFromOn(x, col, it) ==
    CASE x = "b" -> b_After(b_RemoveFrom(badger, col, it), col)
      [] x = "bo" -> bolt_After(bolt_RemoveFrom(bolt, col, it), col)
      [] OTHER -> s_After(s_RemoveFrom(sqlite, col, it), col)

\* C3: on every repository, when AddTo(c, x) has succeeded and the
\* RemoveFrom(c, x) that follows succeeds, x is no member of c.
C3_RemovedAfterAdd ==
    \A x \in Backends :
        LastOk("AddTo", x) =>
            LeavesOut(RemoveFromOn(x, last.iri, last.it), GetLink(last.it))

\* AddTo has succeeded on all three repositories, each holds the member, and
\* on each the RemoveFrom that follows succeeds and leaves it out
C3_Witness ==
    /\ last.op = "AddTo"
    /\ \A x \in Backends :
          /\ last[x].err = "ok"
          /\ Count(MembersOn(x, last.iri), GetLink(last.it)) >= 1
          /\ Leaves(RemoveFromOn(x, last.iri, last.it), GetLink(last.it), 0)

(***************************************************************************)
(* C4  RemoveFrom of an absent member                                      *)
(***************************************************************************)
\* what a repository holds on disk
Durable(x) ==
    CASE x = "b" -> badger.db
      [] x = "bo" -> <<bolt.bk, bolt.kv>>
      [] OTHER -> <<sqlite.objects, sqlite.actors, sqlite.activities, sqlite.collections>>

RemoveAbsentOn(x) ==
    (last'.op = "RemoveFrom" /\ last'[x].err = "ok"
        /\ Count(MembersOn(x, last'.iri), GetLink(last'.it)) = 0) =>
            /\ Durable(x)' = Durable(x)
            /\ LoadIn(stores', x, last'.iri, 0, 0) = LoadOn(x, last'.iri, 0, 0)

\* C4: on every repository, a RemoveFrom(c, x) with x no member of c that
\* succeeds leaves the store as it was, and Load(c) returns what it returned
\* before, also when c did not exist.
C4_RemoveAbsentIsNoOp == [][\A x \in Backends : RemoveAbsentOn(x)]_vars

CascadeDeleteOn(x) ==
    (/\ last'.op = "Delete" /\ last'[x].err = "ok"
     /\ FoundOne(LoadOn(x, last'.iri, 0, 0), last'.iri, "Person")
     /\ MembersOn(x, ColIRI(last'.iri, "followers")) # <<>>) =>
        /\ LoadIn(stores', x, ColIRI(last'.iri, "followers"), 0, 0).err # "ok"
        /\ LoadIn(stores', x, ColIRI(last'.iri, "outbox"), 0, 0).err # "ok"

\* C6: on every repository, after a successful Delete of an actor whose
\* followers collection had members, Load of the actor's followers and of its
\* outbox no longer resolves.
C6_CascadeDelete == [][\A x \in Backends : CascadeDeleteOn(x)]_vars

(***************************************************************************)
(* C7  Tombstone content                                                   *)
(***************************************************************************)
IsTombstoneOf(t, i, former) ==
    /\ IsObject(t) /\ GetLink(t) = i /\ GetType(t) = TombstoneType
    /\ t.to = <<PublicNS>> /\ t.formerType = former

FoundTombstoneOf(r, i, former) == r.err = "ok" /\ Len(r.col) = 1 /\ IsTombstoneOf(r.col[1], i, former)

TombstoneContentOn(x) ==
    \A t \in ActorTypes \cup ActivityTypes \cup ObjectTypes :
        (/\ last'.op = "Delete" /\ last'[x].err = "ok"
         /\ FoundOne(LoadOn(x, last'.iri, 0, 0), last'.iri, t)) =>
            /\ IsTombstoneOf(last'[x].col[1], last'.iri, t)
            /\ FoundTombstoneOf(LoadIn(stores', x, last'.iri, 0, 0), last'.iri, t)

\* C7: on every repository, the Tombstone a successful Delete writes and
\* returns has the item's IRI, type Tombstone, the public collection as its
\* only audience, and as former type the type the item had in the store.
C7_TombstoneContent == [][\A x \in Backends : TombstoneContentOn(x)]_vars

(***************************************************************************)
(* C8  Pagination                                                          *)
(***************************************************************************)
\* a load that resolves the IRI to one stored item
Resolves(r) == r.err = "ok" /\ Len(r.col) = 1
\* two distinct members, each stored in the sqlite repository
TwoStoredMembers(ms) ==
    /\ Len(ms) = 2 /\ ms[1] # ms[2]
    /\ \A n \in 1..2 : Resolves(LoadOn("s", ms[n], 0, 0))
\* two pages of one item each that together are the members ms
PagesCover(p1, p2, ms) ==
    /\ Resolves(p1) /\ Resolves(p2)
    /\ {GetLink(p1.col[1]), GetLink(p2.col[1])} = {ms[n] : n \in 1..Len(ms)}

\* C8: on the sqlite repository, whose Load applies the limit, when the
\* outbox holds two distinct stored members (of any kinds), the queries with
\* maxItems = 1 for page 1 and page 2 each return exactly one item and the
\* two pages together return each member exactly once.
C8_PagesCoverMembers ==
    TwoStoredMembers(s_Members(sqlite, Outbox)) =>
        PagesCover(LoadOn("s", Outbox, 1, 1), LoadOn("s", Outbox, 1, 2), s_Members(sqlite, Outbox))

(***************************************************************************)
(* C9  The outbox dereferences the object of a Create                      *)
(***************************************************************************)
\* the actor with its outbox, the Create activity and its object are stored
\* on repository x, and the outbox holds the activity and nothing else
OutboxScenario(x) ==
    /\ LastOk("AddTo", x) /\ last.iri = Outbox /\ GetLink(last.it) = ActivityIRI
    /\ FoundOne(LoadOn(x, ActorIRI, 0, 0), ActorIRI, "Person")
    /\ FoundOne(LoadOn(x, ActivityIRI, 0, 0), ActivityIRI, CreateType)
    /\ FoundOne(LoadOn(x, ObjectIRI, 0, 0), ObjectIRI, "Note")
    /\ MembersOn(x, Outbox) = <<ActivityIRI>>
\* a load of one activity whose object is the item o itself, not its IRI
OneWithObject(r, i, o) ==
    /\ FoundOne(r, i, CreateType)
    /\ IsObject(r.col[1].object) /\ r.col[1].object = o

\* C9: on every repository, when actor A, the activity Create{actor: A,
\* object: O} and O are stored and AddTo(A.outbox, activity) has succeeded,
\* Load(A.outbox) returns exactly one member, the activity, and its object
\* field is the stored payload of O, not a bare IRI.
C9_OutboxExpandsObject ==
    \A x \in Backends :
        OutboxScenario(x) => OneWithObject(LoadOn(x, Outbox, 0, 0), ActivityIRI, Note)

(***************************************************************************)
(* C10  PasswordSet then PasswordCheck                                     *)
(***************************************************************************)
PasswordCheckOn(x, it, pw) ==
    CASE x = "b" -> b_PasswordCheck(badger, it, pw)
      [] x = "bo" -> bolt_PasswordCheck(bolt, it, pw)
      [] OTHER -> s_PasswordCheck(sqlite, it, pw)

PasswordRoundTripOn(x) ==
    LastOk("PasswordSet", x) =>
        /\ PasswordCheckOn(x, last.it, last.pw) = "ok"
        /\ \A pw \in Passwords \ {last.pw} : PasswordCheckOn(x, last.it, pw) = "Unauthorized"

\* C10: on every repository, after PasswordSet(A, s) has succeeded,
\* PasswordCheck(A, s) succeeds and PasswordCheck(A, s') with any other
\* password s' fails with Unauthorized.
C10_PasswordRoundTrip == \A x \in Backends : PasswordRoundTripOn(x)


(***************************************************************************)
(* C11  PasswordCheck without a metadata record                            *)
(***************************************************************************)
\* whether repository x holds a metadata record for IRI i
HasMetadataOn(x, i) ==
    CASE x = "b" -> getMetadataKey(itemPath(i)) \in DOMAIN badger.db
      [] x = "bo" -> itemBucketPath(i) \o <<metaDataKey>> \in DOMAIN bolt.kv
      [] OTHER -> \E n \in 1..Len(sqlite[getCollectionTypeFromIRI(i)]) :
                      /\ sqlite[getCollectionTypeFromIRI(i)][n].iri = i
                      /\ sqlite[getCollectionTypeFromIRI(i)][n].meta # NoMeta

\* the kind of error PasswordCheck may answer with and without a record
CheckKindOn(x, i, pw) ==
    /\ ~HasMetadataOn(x, i) => PasswordCheckOn(x, IriIt(i), pw) = "NotFound"
    /\ PasswordCheckOn(x, IriIt(i), pw) = "Unauthorized" => HasMetadataOn(x, i)

\* C11: on every repository, PasswordCheck on an item with no metadata
\* record fails with NotFound, and Unauthorized is answered only when a
\* record exists.
C11_NoMetadataIsNotFound ==
    \A x \in Backends : \A pw \in Passwords : CheckKindOn(x, ActorIRI, pw)


(***************************************************************************)
(* C12  Backend equivalence                                                *)
(***************************************************************************)
\* the calls the equivalence is claimed for
StoreOps == {"Save", "Create", "AddTo", "RemoveFrom", "Delete", "Load"}

\* C12: in every run from the empty store, each Save, Create, AddTo,
\* RemoveFrom, Delete and Load is answered alike by the badger, boltdb and
\* sqlite repositories: the same error kind and the same items.
C12_BackendsAgree ==
    last.op \in StoreOps => (last.b = last.bo /\ last.bo = last.s)


(***************************************************************************)
(* The root actor, and calls with unusual arguments.                       *)
(*                                                                         *)
(* CreateService bootstraps the instance's root actor, whose IRI is the    *)
(* base URL.  A second specification drives the same calls as Spec with    *)
(* the root actor and with arguments Spec leaves out.                      *)
(***************************************************************************)
ServiceIRI == BaseURL
ServiceCols == [c \in ActivityPubCollections |-> IF c \in OnActor THEN IriIt(ColIRI(ServiceIRI, c)) ELSE NilIt]
ServiceBare == Obj(ServiceIRI, "Service", NoCols, NilIt, NilIt)
ServiceFull == Obj(ServiceIRI, "Service", ServiceCols, NilIt, NilIt)
Services == {ServiceBare, ServiceFull}

\* CreateService: Open, save(r, service), Close
b_CreateService(st, service) == b_save(st, service)
s_CreateService(st, service) == s_save(st, service)
\* boltdb: createService writes the root actor if it is absent
bolt_CreateService(st, service) ==
    IF itemBucketPath(GetLink(service)) \o <<objectKey>> \in DOMAIN st.kv
    THEN [st |-> [st EXCEPT !.d = "closed"], it |-> service, err |-> "ok"]
    ELSE bolt_save([st EXCEPT !.d = "closed"], service)

CreateService(service) ==
    LET Commit(rb, rbo, rs) ==
            /\ Tick
            /\ badger' = [db |-> rb.db, cache |-> rb.cache]
            /\ bolt' = rbo.st
            /\ sqlite' = rs.st
            /\ last' = Call("CreateService", GetLink(service), service, "", 0, 0,
                            R(rb.err, <<>>), R(rbo.err, <<>>), R(rs.err, <<>>))
            /\ tombs' = [x \in Backends |-> tombs[x] \ {GetLink(service)}]
    IN Commit(b_CreateService(badger, service), bolt_CreateService(bolt, service),
              s_CreateService(sqlite, service))

\* an actor of another instance, kept locally without its collections, and
\* its followers collection
RemoteHost == "x"
RemoteActorIRI == <<RemoteHost, "actors", "1">>
RemoteActor == Obj(RemoteActorIRI, "Person", NoCols, NilIt, NilIt)
RemoteFollowers == ColIRI(RemoteActorIRI, "followers")

\* a Create activity whose object is the activity itself
SelfCreate == Obj(ActivityIRI, CreateType, NoCols, IriIt(ActorIRI), IriIt(ActivityIRI))

\* New: a repository constructed over the store as it is, with an empty
\* cache and, for boltdb, a handle not yet opened
New ==
    /\ Tick
    /\ badger' = [badger EXCEPT !.cache = EmptyMap]
    /\ bolt' = [bolt EXCEPT !.d = "nil"]
    /\ sqlite' = [sqlite EXCEPT !.cache = EmptyMap]
    /\ last' = Call("New", <<>>, NilIt, "", 0, 0, NoRes, NoRes, NoRes)
    /\ UNCHANGED tombs

NextRoot ==
    \/ \E service \in Services : CreateService(service)
    \/ \E it \in {ServiceBare, ActorFull, ActorBare, RemoteActor, SelfCreate} : Save(it)
    \/ \E m \in {<<Outbox, IriIt(ActivityIRI)>>, <<Followers, IriIt(ObjectIRI)>>} : AddTo(m[1], m[2])
    \/ \E it \in {ServiceBare, IriIt(ServiceIRI)} : Delete(it)
    \/ \E i \in {ServiceIRI, ActorIRI, ActivityIRI} : Load(i, 0, 0)
    \/ New
    \/ AddTo(RemoteFollowers, IriIt(ObjectIRI))
    \/ RemoveFrom(RemoteFollowers, IriIt(ObjectIRI))

SpecRoot == Init /\ [][NextRoot]_vars


(***************************************************************************)
(* C13  One stored record per IRI                                          *)
(***************************************************************************)
\* the rows of a table that carry this IRI
RowsOf(rows, i) == Cardinality({n \in 1..Len(rows) : rows[n].iri = i})
\* the item records a repository stores for an IRI, over all the places
\* records are kept in
RecordsOn(x, i) ==
    CASE x = "b" -> IF getObjectKey(itemPath(i)) \in DOMAIN badger.db THEN 1 ELSE 0
      [] x = "bo" -> IF itemBucketPath(i) \o <<objectKey>> \in DOMAIN bolt.kv THEN 1 ELSE 0
      [] OTHER -> RowsOf(sqlite.objects, i) + RowsOf(sqlite.actors, i) + RowsOf(sqlite.activities, i)
KnownIRIs == {ServiceIRI, ActorIRI, ObjectIRI, ActivityIRI} \cup Collections

\* C13: in every reachable state a repository stores at most one item record
\* per IRI, counted over all the places records are kept in (the three
\* sqlite tables; the object key of a path in badger and boltdb), also after
\* a Tombstone has replaced an actor.
C13_OneRecordPerIRI ==
    \A x \in Backends : \A i \in KnownIRIs : RecordsOn(x, i) <= 1


(***************************************************************************)
(* C14  AddTo and RemoveFrom against the cache                             *)
(***************************************************************************)
\* the IRIs a repository's cache holds an entry for; boltdb keeps no cache
CachedOn(x) ==
    CASE x = "b" -> DOMAIN badger.cache
      [] x = "bo" -> {}
      [] OTHER -> DOMAIN sqlite.cache

\* C14: after a successful AddTo(c, x) or RemoveFrom(c, x) the repository's
\* cache holds no entry for the collection c (neither call stores one, so an
\* entry found then was made before the call).
C14_NoCollectionEntryLeft ==
    \A x \in Backends :
        (LastOk("AddTo", x) \/ LastOk("RemoveFrom", x)) => last.iri \notin CachedOn(x)


(***************************************************************************)
(* C15  A collection of another instance                                   *)
(***************************************************************************)
\* what a repository stores, without its cache and its handle
StoredIn(S, x) ==
    CASE x = "b" -> S[1].db
      [] x = "bo" -> <<S[2].bk, S[2].kv>>
      [] OTHER -> <<S[3].objects, S[3].actors, S[3].activities, S[3].collections>>

\* C15: an AddTo or RemoveFrom whose collection IRI is not local to the
\* instance fails, and it leaves every stored key as it was: neither the
\* collection's record nor its owner's differs after the call.
RejectsNonLocal(x) ==
    (last'.op \in {"AddTo", "RemoveFrom"} /\ ~IsLocalIRI(last'.iri)) =>
        (last'[x].err # "ok" /\ StoredIn(stores', x) = StoredIn(stores, x))
C15_NonLocalRejectedUnwritten == [][\A x \in Backends : RejectsNonLocal(x)]_vars


(***************************************************************************)
(* C16  Load over activities that reference themselves                     *)
(***************************************************************************)
\* C16: every Load returns, whatever the store holds: none runs into
\* unbounded dereferencing, also when a stored Create activity has its own
\* IRI as its object and the cache is empty.
C16_LoadTerminates ==
    last.op = "Load" => \A x \in Backends : last[x].err # "overflow"


(***************************************************************************)
(* C17  Mandatory collections                                              *)
(***************************************************************************)
\* collections of a mandatory kind: the instance's own outbox and an actor's
MandatoryIRIs == {ColIRI(ServiceIRI, "outbox"), Outbox}
\* a collection the repository has no record and no member of
AbsentOn(x, col) ==
    CASE x = "b" -> getObjectKey(itemPath(col)) \notin DOMAIN badger.db
      [] x = "bo" -> itemBucketPath(col) \notin bolt.bk
      [] OTHER -> \A n \in 1..Len(sqlite.collections) : sqlite.collections[n].iri # col
MandatoryFoundOn(x) == \A col \in MandatoryIRIs : LoadOn(x, col, 0, 0).err # "NotFound"
AbsentNotFoundOn(x) == AbsentOn(x, Followers) => LoadOn(x, Followers, 0, 0).err = "NotFound"

\* C17: on every repository, the Load of a collection of a mandatory kind
\* never fails with NotFound, members or not, and the Load of an absent
\* followers collection (a protocol collection that is not mandatory) fails
\* with NotFound.
C17_MandatoryNeverNotFound ==
    \A x \in Backends : MandatoryFoundOn(x) /\ AbsentNotFoundOn(x)


(***************************************************************************)
(* C18  Who changes metadata                                               *)
(***************************************************************************)
\* PasswordCheck(it, pw) on each repository (S is the three stores)
PasswordCheckIn(S, x, it, pw) ==
    CASE x = "b" -> b_PasswordCheck(S[1], it, pw)
      [] x = "bo" -> bolt_PasswordCheck(S[2], it, pw)
      [] OTHER -> s_PasswordCheck(S[3], it, pw)
\* the calls that are not credential operations
FrameOps == {"Save", "Delete", "AddTo", "RemoveFrom", "Create"}
KeepsPasswordOn(x) ==
    last'.op \in FrameOps =>
        \A pw \in Passwords :
            PasswordCheckIn(stores', x, IriIt(ActorIRI), pw) = PasswordCheckIn(stores, x, IriIt(ActorIRI), pw)

\* C18: on every repository, a Save, Delete, AddTo, RemoveFrom or Create
\* leaves the answer of PasswordCheck for the actor, for every password, as
\* it was before the call: only the credential operations change metadata.
C18_OnlyPasswordSetChangesMetadata == [][\A x \in Backends : KeepsPasswordOn(x)]_vars


(***************************************************************************)
(* C19  CreateService on a store that has a root actor                     *)
(***************************************************************************)
KeepsRootOn(x) ==
    (last'.op = "CreateService" /\ RecordsOn(x, ServiceIRI) > 0) =>
        StoredIn(stores', x) = StoredIn(stores, x)

\* C19: a CreateService called when the repository already stores a record
\* for the root actor leaves what the repository stores unchanged.
C19_CreateServiceKeepsRoot == [][\A x \in Backends : KeepsRootOn(x)]_vars


(***************************************************************************)
(* C20  A later Save and the item's sub-collections                        *)
(***************************************************************************)
KeepsMembersOn(x) ==
    (last'.op = "Save" /\ last'[x].err = "ok" /\ RecordsOn(x, last'.iri) > 0) =>
        \A c \in ActivityPubCollections :
            MembersIn(stores', x, ColIRI(last'.iri, c)) = MembersIn(stores, x, ColIRI(last'.iri, c))

\* C20: a Save of an item the repository already stores leaves the members
\* of every sub-collection of the item as they were before the call, members
\* added with AddTo included.
C20_LaterSaveKeepsMembers == [][\A x \in Backends : KeepsMembersOn(x)]_vars


(***************************************************************************)
(* C21  Cache transparency                                                 *)
(***************************************************************************)
\* the stores as a repository with the cache disabled finds them: every
\* cache lookup misses
NoCache(S) == <<[S[1] EXCEPT !.cache = EmptyMap], S[2], [S[3] EXCEPT !.cache = EmptyMap]>>
SameWithoutCache(x, q) == LoadIn(stores, x, q[1], q[2], q[3]) = LoadIn(NoCache(stores), x, q[1], q[2], q[3])

\* C21: in every reachable state, every Load answers the same (error and
\* items) from a repository with its cache as from one whose cache is
\* disabled.
C21_CacheTransparent ==
    \A x \in Backends : \A q \in Queries \cup {<<ActivityIRI, 0, 0>>} : SameWithoutCache(x, q)


(***************************************************************************)
(* C22  Delete of an item that is not stored                               *)
(***************************************************************************)
\* C22: every Delete completes normally on every repository, whether or not
\* a record of the item's type is stored at its IRI: it fails with no error
\* and returns the Tombstone of that IRI.
C22_DeleteCompletes ==
    last.op = "Delete" =>
        \A x \in Backends :
            /\ last[x].err = "ok"
            /\ GetLink(last[x].col[1]) = last.iri /\ GetType(last[x].col[1]) = TombstoneType


(***************************************************************************)
(* C23  AddTo and the other collections                                    *)
(***************************************************************************)
\* the collections an actor of the instance can own
ActorCollections == {ColIRI(ActorIRI, c) : c \in ActivityPubCollections}
LeavesOthersOn(x) ==
    (last'.op = "AddTo" /\ last'[x].err = "ok") =>
        \A col \in ActorCollections \ {last'.iri} : MembersIn(stores', x, col) = MembersIn(stores, x, col)

\* C23: a successful AddTo(c, x) leaves the members of every collection
\* other than c as they were, the owner's other sub-collections included,
\* also when the owner did not expose c yet and AddTo saves it again.
C23_AddToLeavesOthers == [][\A x \in Backends : LeavesOthersOn(x)]_vars


(***************************************************************************)
(* Concurrent operations on one repository value.                          *)
(*                                                                         *)
(* Open stores the handle it gets in a field of the repository (r.d,       *)
(* r.conn) and every access and Close reads that field again.  Two         *)
(* goroutines call AddTo or RemoveFrom on the actor's outbox of one         *)
(* repository; each call is the steps of its code: the owner lookup of     *)
(* AddTo (badger, boltdb), Open, the transaction, the deferred Close.      *)
(* conc.on is the repository they share, conc.d the handle field,          *)
(* conc.live the handles opened and not yet closed (a handle is named      *)
(* after the goroutine that opened it), conc.via the handle field as a      *)
(* goroutine last read it for an access.                                   *)
(***************************************************************************)
ItemOf(p) == IF p = "p" THEN IriIt(ActivityIRI) ELSE IriIt(ObjectIRI)

\* the stores once the actor is saved
Seeded(rb, rbo, rs) ==
    /\ badger = [db |-> rb.db, cache |-> rb.cache]
    /\ bolt = rbo.st
    /\ sqlite = rs.st

InitConc ==
    /\ Seeded(b_Save([db |-> EmptyMap, cache |-> EmptyMap], ActorFull),
              bolt_Save([bk |-> {}, kv |-> EmptyMap, d |-> "nil"], ActorFull),
              s_Save([objects |-> <<>>, actors |-> <<>>, activities |-> <<>>, collections |-> <<>>,
                      cache |-> EmptyMap], ActorFull))
    /\ last = Call("none", <<>>, NilIt, "", 0, 0, NoRes, NoRes, NoRes)
    /\ calls = 0
    /\ tombs = [x \in Backends |-> {}]
    \* the handle field is nil in a repository just constructed, and holds a
    \* closed handle ("old") once the repository has run an operation
    /\ web = NoWeb
    /\ \E x \in Backends : \E d \in {"nil", "old"} :
           conc = [Idle EXCEPT !.on = x, !.d = d, !.pc = [p \in Procs |-> "start"]]

Quiet == UNCHANGED <<last, calls, tombs, web>>

\* addCollectionOnObject, the first thing AddTo does on badger and boltdb.
\* badger: r.LoadOne opens, loads and closes (taken as one step); its Open
\* fails while another handle holds the directory lock and leaves r.d nil.
\* boltdb: r.loadOneFromBucket reads through r.d as it is, a nil r.d is
\* dereferenced.  The owner exposes the outbox, so it is not saved again.
Lookup(p) ==
    /\ conc.pc[p] = "start" /\ conc.on \in {"b", "bo"}
    /\ conc' = IF conc.on = "b"
               THEN [conc EXCEPT !.fn[p] = "add", !.pc[p] = "open",
                                 !.d = IF conc.live = {} THEN p ELSE "nil"]
               ELSE IF conc.d = "nil"
               THEN [conc EXCEPT !.fn[p] = "add", !.pc[p] = "done", !.via[p] = "nil", !.res[p] = "panic"]
               ELSE [conc EXCEPT !.fn[p] = "add", !.pc[p] = "open", !.via[p] = conc.d]
    /\ UNCHANGED stores /\ Quiet

\* the lock on the directory of a badger store is held while a handle is open
NoDirLock(live) == FALSE
DirLocked(live) == live # {}

\* r.Open(): sqlite's sql.Open always succeeds; bolt.Open waits for the file
\* lock while a handle is live; badger.Open fails then, r.d becomes nil and
\* the call returns the error
Open(p, fn) ==
    /\ \/ conc.pc[p] = "open" /\ fn = conc.fn[p]
       \/ conc.pc[p] = "start" /\ (fn \in {"remove", "save"} \/ conc.on = "s")
    /\ conc.on = "bo" => conc.live = {}
    /\ conc' = IF conc.on = "b" /\ DirLocked(conc.live)
               THEN [conc EXCEPT !.fn[p] = fn, !.pc[p] = "done", !.d = "nil", !.res[p] = "Error"]
               ELSE [conc EXCEPT !.fn[p] = fn, !.pc[p] = "opened", !.d = p, !.live = @ \cup {p}]
    /\ UNCHANGED stores /\ Quiet

\* the transaction, through the handle field as it is now: a nil field is
\* dereferenced, a closed handle fails, a live one runs the transaction whole
Transact(p) ==
    LET Done(err) == conc' = [conc EXCEPT !.pc[p] = "used", !.via[p] = conc.d, !.res[p] = err]
        OnBadger(r) == badger' = [db |-> r.db, cache |-> r.cache] /\ UNCHANGED <<bolt, sqlite>> /\ Done(r.err)
        OnBolt(r) == bolt' = r.st /\ UNCHANGED <<badger, sqlite>> /\ Done(r.err)
        OnSqlite(r) == sqlite' = r.st /\ UNCHANGED <<badger, bolt>> /\ Done(r.err)
    IN /\ conc.pc[p] = "opened" /\ conc.fn[p] # "save"
       /\ IF conc.d = "nil"
          THEN /\ conc' = [conc EXCEPT !.pc[p] = "done", !.via[p] = "nil", !.res[p] = "panic"]
               /\ UNCHANGED stores
          ELSE IF conc.d \notin conc.live THEN UNCHANGED stores /\ Done("Error")
          ELSE CASE conc.on = "b" -> OnBadger(b_onCollection(badger, Outbox, ItemOf(p), conc.fn[p]))
                 [] conc.on = "bo" -> OnBolt(bolt_onCollection(bolt, Outbox, ItemOf(p), conc.fn[p]))
                 [] OTHER -> OnSqlite(IF conc.fn[p] = "add" THEN s_AddTo(sqlite, Outbox, ItemOf(p))
                                      ELSE s_RemoveFrom(sqlite, Outbox, ItemOf(p)))
       /\ Quiet

\* the deferred r.Close(): it closes the handle the field holds now
Close(p) ==
    /\ conc.pc[p] = "used"
    /\ conc' = [conc EXCEPT !.pc[p] = "done", !.live = @ \ {conc.d}]
    /\ UNCHANGED stores /\ Quiet

\* Save of the actor by both goroutines, each with its own value.  save is
\* two steps: the write of the record (one transaction or one INSERT, through
\* the handle field as it is now), then the cache.Set of the item.  last
\* records the value the substrate committed last.
SaveItemOf(p) == IF p = "p" THEN ActorBare ELSE ActorFull

Write(p) ==
    LET Done(err, pc) == conc' = [conc EXCEPT !.pc[p] = pc, !.via[p] = conc.d, !.res[p] = err]
        Committed(it) == last' = [last EXCEPT !.op = "Save", !.iri = GetLink(it), !.it = it]
        OnBadger(r) == /\ badger' = [db |-> r.db, cache |-> badger.cache]
                       /\ UNCHANGED <<bolt, sqlite>> /\ Committed(r.it) /\ Done("ok", "written")
        OnBolt(r) == /\ bolt' = r.st /\ UNCHANGED <<badger, sqlite>>
                     /\ Committed(r.it) /\ Done(r.err, "used")
        OnSqlite(r) == /\ sqlite' = [r.st EXCEPT !.cache = sqlite.cache]
                       /\ UNCHANGED <<badger, bolt>> /\ Committed(r.it) /\ Done("ok", "written")
    IN /\ conc.pc[p] = "opened" /\ conc.fn[p] = "save"
       /\ IF conc.d = "nil"
          THEN /\ conc' = [conc EXCEPT !.pc[p] = "done", !.via[p] = "nil", !.res[p] = "panic"]
               /\ UNCHANGED <<stores, last>>
          ELSE IF conc.d \notin conc.live
          \* the write fails: badger's save sets the cache entry all the same
          THEN UNCHANGED <<stores, last>> /\ Done("Error", IF conc.on = "b" THEN "written" ELSE "used")
          ELSE CASE conc.on = "b" -> OnBadger(b_save(badger, SaveItemOf(p)))
                 [] conc.on = "bo" -> OnBolt(bolt_save(bolt, SaveItemOf(p)))
                 [] OTHER -> OnSqlite(s_save(sqlite, SaveItemOf(p)))
       /\ UNCHANGED <<calls, tombs, web>>

SetCache(p) ==
    /\ conc.pc[p] = "written"
    /\ conc' = [conc EXCEPT !.pc[p] = "used"]
    /\ IF conc.on = "b"
       THEN /\ badger' = [badger EXCEPT !.cache = CacheSet(@, ActorIRI, b_createCollections(badger.db, SaveItemOf(p)).it)]
            /\ UNCHANGED <<bolt, sqlite>>
       ELSE /\ sqlite' = [sqlite EXCEPT !.cache = CacheSet(@, ActorIRI, flattenCollections(SaveItemOf(p)))]
            /\ UNCHANGED <<badger, bolt>>
    /\ Quiet

\* a panic in one goroutine ends the program
NextConc ==
    \E p \in {q \in Procs : \A o \in Procs : conc.res[o] # "panic"} :
        \/ Lookup(p)
        \/ \E fn \in {"add", "remove", "save"} : Open(p, fn)
        \/ Transact(p)
        \/ Write(p)
        \/ SetCache(p)
        \/ Close(p)

SpecConc == InitConc /\ [][NextConc]_vars


(***************************************************************************)
(* C24  Each operation uses the handle it opened                           *)
(***************************************************************************)
OwnHandleOn(x) == conc.on = x => \A p \in Procs : conc.via[p] \in {"none", p}

\* C24: when operations run concurrently on one repository value, every
\* access an operation makes to the substrate goes through the handle that
\* operation opened itself: never through a nil field, and never through a
\* handle another operation put there or closed.
C24_OwnHandle == \A x \in Backends : OwnHandleOn(x)


(***************************************************************************)
(* C25  No lost update on membership                                       *)
(***************************************************************************)
\* both goroutines called AddTo on the shared repository and both calls
\* returned without an error
BothAddedOn(x) ==
    /\ conc.on = x
    /\ \A p \in Procs : conc.pc[p] = "done" /\ conc.fn[p] = "add" /\ conc.res[p] = "ok"
HoldsBothOn(x) == \A p \in Procs : SeqContains(MembersOn(x, Outbox), GetLink(ItemOf(p)))

FieldsNamedOn(x) ==
    LastOk("Save", x) =>
        \A c \in DeclaredCols(last.it) : last[x].col[1].cols[c] = IriIt(ColIRI(last.iri, c))

\* C26: after a successful Save, each sub-collection field the item declares
\* holds the IRI of the collection of that same name under the item: no
\* inline collection, no nil, and not the IRI of another collection.
C26_FieldsNameTheirCollection == \A x \in Backends : FieldsNamedOn(x)


(***************************************************************************)
(* C27  Load of a path without a record                                    *)
(***************************************************************************)
\* the IRIs of plain items: only the record at the path itself qualifies
PlainIRIs == {ActorIRI, ObjectIRI, ActivityIRI}
UnstoredNotFoundOn(x) ==
    \A i \in PlainIRIs : RecordsOn(x, i) = 0 => LoadOn(x, i, 0, 0).err = "NotFound"

\* C27: the Load of a plain item's IRI at which no record is stored answers
\* NotFound, also when keys exist below the path (a sub-collection, the
\* metadata of the item) or beside it.
C27_UnstoredIsNotFound == \A x \in Backends : UnstoredNotFoundOn(x)


(***************************************************************************)
(* Listing by key prefix: an actor whose id has the id of another actor    *)
(* as a string prefix, and the three kinds of listing (item, storage       *)
(* collection, collection endpoint).                                       *)
(***************************************************************************)
Actor10IRI == <<Host, "actors", "10">>
Actor10 == Obj(Actor10IRI, "Person", NoCols, NilIt, NilIt)
ActorsIRI == <<Host, "actors">>
ListQueries == {ActorIRI, Actor10IRI, ActorsIRI, Outbox}

\* save when the write of the item fails: the transaction (badger, boltdb)
\* or the INSERT (sqlite) leaves the substrate as it was and the error is
\* returned; badger's save sets the cache entry after the transaction
\* whatever its outcome, sqlite's save returns before it sets the entry
b_saveFailed(st, it) ==
    LET Failed(cc) == [db |-> st.db, cache |-> CacheSet(st.cache, GetLink(it), cc.it),
                       it |-> cc.it, err |-> "Error"]
    IN Failed(b_createCollections(st.db, it))
bolt_saveFailed(st, it) == [st |-> [st EXCEPT !.d = "closed"], it |-> it, err |-> "Error"]
s_saveFailed(st, it) == [st |-> st, it |-> it, err |-> "Error"]

SaveFails(it) ==
    LET Commit(rb, rbo, rs) ==
            /\ Tick
            /\ badger' = [db |-> rb.db, cache |-> rb.cache]
            /\ bolt' = rbo.st
            /\ sqlite' = rs.st
            /\ last' = Call("Save", GetLink(it), it, "", 0, 0,
                            R(rb.err, <<rb.it>>), R(rbo.err, <<rbo.it>>), R(rs.err, <<rs.it>>))
            /\ UNCHANGED tombs
    IN Commit(b_saveFailed(badger, it), bolt_saveFailed(bolt, it), s_saveFailed(sqlite, it))

\* a Create activity whose object is another Create activity
OuterIRI == <<Host, "activities", "10">>
OuterCreate == Obj(OuterIRI, CreateType, NoCols, IriIt(ActorIRI), IriIt(ActivityIRI))

\* sqlite: the sub-filters of a query on the object and the actor of the
\* activities it returns (NoSub: the sub-filter is not set)
NoSub == [ft |-> "none"]
SubFilters(object, actor) == [object |-> object, actor |-> actor]
ByIRI(i) == Filters(i, "", {})

\* the first of the children the participant link-equals, nil without one
RECURSIVE FirstLinked(_, _, _)
FirstLinked(children, link, n) ==
    IF n > Len(children) THEN NilIt
    ELSE IF GetLink(children[n]) = link THEN children[n]
    ELSE FirstLinked(children, link, n + 1)

\* childFilter: the positions to remove, and the items with the participant
\* of every kept activity replaced by the child it equals
s_childFilter(st, ret, f, part) ==
    LET Sift(children) ==
            [remove |-> {n \in 1..Len(ret) :
                            \/ GetType(ret[n]) \notin ActivityTypes
                            \/ IsNil(FirstLinked(children, GetLink(ret[n][part]), 1))},
             ret |-> [n \in 1..Len(ret) |->
                         IF GetType(ret[n]) \in ActivityTypes
                            /\ ~IsNil(FirstLinked(children, GetLink(ret[n][part]), 1))
                         THEN [ret[n] EXCEPT ![part] = FirstLinked(children, GetLink(ret[n][part]), 1)]
                         ELSE ret[n]],
             cache |-> CacheSetAll(st.cache, children, 1)]
    IN IF f = NoSub THEN [remove |-> {}, ret |-> ret, cache |-> st.cache]
       ELSE Sift(s_loadFromThreeTables(st, f).col)

RECURSIVE Kept(_, _, _)
Kept(ret, remove, n) ==
    IF n > Len(ret) THEN <<>>
    ELSE (IF n \in remove THEN <<>> ELSE <<ret[n]>>) \o Kept(ret, remove, n + 1)

s_runActivityFilters(st, ret, subs) ==
    LET ByActor(o, a) == [col |-> Kept(a.ret, o.remove \cup a.remove, 1), err |-> "ok",
                          cache |-> CacheSetAll(a.cache, a.ret, 1)]
        ByObject(o) == ByActor(o, s_childFilter([st EXCEPT !.cache = o.cache], o.ret, subs.actor, "actor"))
    IN ByObject(s_childFilter(st, ret, subs.object, "object"))

\* loadFromOneTable of a filter with sub-filters
s_loadFiltered(st, f, subs) ==
    LET Run(r) == s_runActivityFilters([st EXCEPT !.cache = r.cache], r.col, subs)
    IN Run(s_loadFromOneTable(st, getCollectionTable(f.collection), f))

ActivitiesIRI == <<Host, "activities">>
SubQueries == {SubFilters(ByIRI(ObjectIRI), NoSub), SubFilters(ByIRI(ActivityIRI), NoSub),
               SubFilters(NoSub, ByIRI(ActorIRI)), SubFilters(ByIRI(ActorIRI), NoSub)}

\* the activities of the sqlite repository loaded with sub-filters
LoadFiltered(subs) ==
    LET Commit(rs) ==
            /\ Tick
            /\ sqlite' = [sqlite EXCEPT !.cache = rs.cache]
            /\ last' = Call("LoadFiltered", ActivitiesIRI, NilIt, "", 0, 0, NoRes, NoRes, R(rs.err, rs.col))
            /\ UNCHANGED <<badger, bolt, tombs>>
    IN Commit(s_loadFiltered(sqlite, FiltersFromIRI(ActivitiesIRI, 0, 0), subs))

\* CreateService when the write of the service fails.  badger's
\* CreateService declares the error of save in the scope of its if statement
\* and returns the error of Open, which is nil; sqlite's returns the error of
\* save; boltdb's returns what createService returns
b_CreateServiceFailed(st, service) == [b_saveFailed(st, service) EXCEPT !.err = "ok"]
bolt_CreateServiceFailed(st, service) == bolt_saveFailed(st, service)
s_CreateServiceFailed(st, service) == s_saveFailed(st, service)

CreateServiceFails(service) ==
    LET Commit(rb, rbo, rs) ==
            /\ Tick
            /\ badger' = [db |-> rb.db, cache |-> rb.cache]
            /\ bolt' = rbo.st
            /\ sqlite' = rs.st
            /\ last' = Call("CreateService", GetLink(service), service, "", 0, 0,
                            R(rb.err, <<>>), R(rbo.err, <<>>), R(rs.err, <<>>))
            /\ UNCHANGED tombs
    IN Commit(b_CreateServiceFailed(badger, service), bolt_CreateServiceFailed(bolt, service),
              s_CreateServiceFailed(sqlite, service))

\* a note whose id does not parse as a URL
BadNote == Obj(BadIRI, "Note", NoCols, NilIt, NilIt)

NextList ==
    \/ \E it \in {ActorFull, Actor10, Note, CreateAct, OuterCreate, BadNote} : Save(it)
    \/ \E subs \in SubQueries : LoadFiltered(subs)
    \/ \E it \in {ActorBare, Note} : SaveFails(it)
    \/ CreateServiceFails(ServiceBare)
    \/ Create(Outbox)
    \/ AddTo(Outbox, IriIt(ObjectIRI))
    \/ \E i \in ListQueries \cup {OuterIRI, BadIRI} : Load(i, 0, 0)
    \/ Delete(Actor10)
    \/ New

SpecList == Init /\ [][NextList]_vars

\* j lies at most d path segments below i
Below(i, j, d) == IsSegPrefix(i, j) /\ Len(j) - Len(i) <= d

ListedWithinOn(x, i) ==
    LET K(r) == \A n \in 1..Len(r.col) :
                    \/ Below(i, GetLink(r.col[n]), ScanDepth(i))
                    \/ ValidCollectionIRI(i) /\ SeqContains(MembersOn(x, i), GetLink(r.col[n]))
    IN K(LoadOn(x, i, 0, 0))

\* C28: a Load returns only records stored within the permitted depth below
\* the path of the IRI (0 for an item, 1 for a storage collection, 2 for a
\* collection endpoint, whose members are loaded by reference); a record
\* nested deeper, or under a sibling path that shares only a string prefix
\* with it, is never returned.
C28_ListingIsDepthBounded ==
    \A x \in {"b", "bo"} : \A i \in ListQueries : ListedWithinOn(x, i)

\* both actors and the outbox of the first are stored, and loading the first
\* actor has returned that actor alone
C28_Witness ==
    /\ last.op = "Load" /\ last.iri = ActorIRI
    /\ last.b.err = "ok" /\ Len(last.b.col) = 1 /\ GetLink(last.b.col[1]) = ActorIRI
    /\ RecordsOn("b", Actor10IRI) = 1
    /\ ColIRI(ActorIRI, "outbox") \o <<objectKey>> \in DOMAIN badger.db


ServesTheSameOn(x) ==
    (last'.op = "Save" /\ last'[x].err # "ok") =>
        LoadIn(stores', x, last'.iri, 0, 0) = LoadIn(stores, x, last'.iri, 0, 0)

\* C29: a Save whose write fails returns the error and leaves the result of
\* a Load of the item's IRI as it was before the Save.
C29_FailedSaveServesTheSame == [][\A x \in Backends : ServesTheSameOn(x)]_vars


\* the references inside an expanded actor or object of it are bare
OneLevel(it) ==
    IsObject(it) =>
        \A sub \in {it.actor, it.object} :
            IsObject(sub) => ~IsObject(sub.actor) /\ ~IsObject(sub.object)

ExpandsOneLevelOn(x) ==
    LET K(r) == \A n \in 1..Len(r.col) : OneLevel(r.col[n])
    IN K(LoadOn(x, OuterIRI, 0, 0))

\* C30: a Load expands the object or actor of an activity by one level only:
\* the references inside the expanded record stay bare IRIs.
C30_ExpandsOneLevel == \A x \in Backends : ExpandsOneLevelOn(x)


\* the stored items of every table that match the sub-filter
StoredMatching(f) ==
    {loadItemRaw(row.raw) : row \in {r \in Range(sqlite.objects) \cup Range(sqlite.actors)
                                           \cup Range(sqlite.activities) : Where(f, r)}}
StoredActivities == {it \in {loadItemRaw(row.raw) : row \in Range(sqlite.activities)} :
                        GetType(it) \in ActivityTypes}
PassesSub(it, f, part) == f = NoSub \/ \E ob \in StoredMatching(f) : GetLink(it[part]) = GetLink(ob)
Expected(subs) ==
    {GetLink(it) : it \in {a \in StoredActivities :
                              PassesSub(a, subs.object, "object") /\ PassesSub(a, subs.actor, "actor")}}
SubFilterExactFor(subs) ==
    LET K(r) == {GetLink(r.col[n]) : n \in 1..Len(r.col)} = Expected(subs)
    IN K(s_loadFiltered(sqlite, FiltersFromIRI(ActivitiesIRI, 0, 0), subs))

\* C31: a query with a sub-filter on the object or the actor returns exactly
\* the activities whose participant link-equals a stored item, of any table,
\* that matches the sub-filter.
C31_SubFilterExact == \A subs \in SubQueries : SubFilterExactFor(subs)


LoadsEmptyIn(S, x, col) ==
    LET K(r) == r.err = "ok" /\ r.col = <<>>
    IN K(LoadIn(S, x, col, 0, 0))

\* the step is a Create of a collection, or the RemoveFrom of the last member
\* of one, that succeeded on x
LeftEmptyOn(x) ==
    /\ last'[x].err = "ok"
    /\ MembersIn(stores', x, last'.iri) = <<>>
    /\ \/ last'.op = "Create"
       \/ last'.op = "RemoveFrom" /\ MembersIn(stores, x, last'.iri) # <<>>

EmptyLoadsOn(x) == LeftEmptyOn(x) => LoadsEmptyIn(stores', x, last'.iri)

\* C32: a collection that exists and has no member loads as an empty result
\* without error: after its Create, and after the RemoveFrom of its last
\* member, on every backend.
C32_EmptyIsNotNotFound == [][\A x \in Backends : EmptyLoadsOn(x)]_vars


\* p is the only caller so far: no other goroutine has started its call
Alone(p) == \A o \in Procs \ {p} : conc.pc[o] = "start"

ScopedOn(x) ==
    conc.on = x =>
        \A p \in Procs :
            Alone(p) =>
                /\ conc.via[p] \in {"none", p}
                /\ conc.res[p] # "panic"
                /\ conc.pc[p] = "done" => conc.live = {}

\* C33: in a single caller every access of an operation goes through a
\* handle the operation has opened and not yet closed, and no handle is
\* left open when the operation returns.
C33_ScopedHandles == \A x \in Backends : ScopedOn(x)


KeepsFormerTypeOn(x) ==
    (last'.op = "Delete" /\ last'[x].err = "ok") =>
        LET K(r) == (/\ r.err = "ok" /\ Len(r.col) = 1 /\ GetType(r.col[1]) = TombstoneType
                     /\ r.col[1].formerType \in ActorTypes \cup ActivityTypes \cup {"Note"}) =>
                        last'[x].col[1].formerType = r.col[1].formerType
        IN K(LoadIn(stores, x, last'.iri, 0, 0))

\* C34: the Delete of an item that is already deleted, its Tombstone holding
\* the type the item had, leaves that formerType in the Tombstone.
C34_SecondDeleteKeepsFormerType == [][\A x \in Backends : KeepsFormerTypeOn(x)]_vars


\* both Saves have returned (whatever they returned) on repository x
BothSavedOn(x) ==
    /\ conc.on = x
    /\ \A p \in Procs : conc.pc[p] = "done" /\ conc.fn[p] = "save" /\ conc.res[p] # "panic"
    /\ last.op = "Save"

ServesCommittedOn(x) ==
    LET K(r) == r.err = "ok" /\ r.col = <<last.it>>
    IN K(LoadOn(x, ActorIRI, 0, 0))

ReadsUnchangedOn(x) ==
    last'.op = "PasswordSet" =>
        \A i \in ItemIRIs \cup Collections :
            LoadIn(stores', x, i, 0, 0) = LoadIn(stores, x, i, 0, 0)

\* C36: a PasswordSet (a write of metadata) leaves the result of every Load
\* as it was, NotFound for an IRI with metadata and no item included.
C36_MetadataLeavesReads == [][\A x \in Backends : ReadsUnchangedOn(x)]_vars


(***************************************************************************)
(* The HTTP handlers and their cache (fb.caches).  HandleCollection         *)
(* answers a GET from the cache when it holds the collection, loads it      *)
(* from the repository otherwise and puts a collection that is not empty    *)
(* in the cache; the handler of a POST has the activity stored and purges   *)
(* the cache afterwards.  The requests run on the three repositories side   *)
(* by side; web.late is the set of GETs that started after the POST was     *)
(* over.                                                                    *)
(***************************************************************************)
Links(col) == [n \in 1..Len(col) |-> GetLink(col[n])]
\* the badger repository as a call leaves it
b_St(r) == [db |-> r.db, cache |-> r.cache]

\* the actor, a note, the activity that created it, and the activity in the
\* actor's outbox
b_Seed ==
    b_St(b_AddTo(b_St(b_Save(b_St(b_Save(b_St(b_Save([db |-> EmptyMap, cache |-> EmptyMap], ActorFull)), Note)),
                             CreateAct)),
                 Outbox, CreateAct))
bolt_Seed ==
    bolt_AddTo(bolt_Save(bolt_Save(bolt_Save([bk |-> {}, kv |-> EmptyMap, d |-> "nil"], ActorFull).st, Note).st,
                         CreateAct).st,
               Outbox, CreateAct).st
s_Seed ==
    s_AddTo(s_Save(s_Save(s_Save([objects |-> <<>>, actors |-> <<>>, activities |-> <<>>,
                                  collections |-> <<>>, cache |-> EmptyMap], ActorFull).st, Note).st,
                   CreateAct).st,
            Outbox, CreateAct).st

InitWeb ==
    /\ badger = b_Seed /\ bolt = bolt_Seed /\ sqlite = s_Seed
    /\ last = Call("none", <<>>, NilIt, "", 0, 0, NoRes, NoRes, NoRes)
    /\ calls = 0
    /\ tombs = [x \in Backends |-> {}]
    /\ conc = Idle
    /\ web = [NoWeb EXCEPT !.pc = [g \in Gets |-> "idle"], !.post = "idle"]

Still == UNCHANGED <<last, calls, tombs, conc>>

\* HandleCollection up to the Load: a cache hit is the answer, otherwise the
\* collection is loaded from the repository
GetLoad(g) ==
    LET Commit(rb, rbo, rs) ==
            /\ badger' = IF web.cache.b = <<>> THEN [badger EXCEPT !.cache = rb.cache] ELSE badger
            /\ bolt' = IF web.cache.bo = <<>> THEN rbo.st ELSE bolt
            /\ sqlite' = IF web.cache.s = <<>> THEN [sqlite EXCEPT !.cache = rs.cache] ELSE sqlite
            /\ web' = [web EXCEPT !.pc[g] = "loaded",
                                  !.late = IF web.post = "done" THEN @ \cup {g} ELSE @,
                                  !.got[g] = [b |-> IF web.cache.b = <<>> THEN Links(rb.col) ELSE web.cache.b,
                                              bo |-> IF web.cache.bo = <<>> THEN Links(rbo.col) ELSE web.cache.bo,
                                              s |-> IF web.cache.s = <<>> THEN Links(rs.col) ELSE web.cache.s]]
    IN /\ web.pc[g] = "idle"
       /\ Commit(b_Load(badger, Outbox, 0, 0), bolt_Load(bolt, Outbox, 0, 0), s_Load(sqlite, Outbox, 0, 0))
       /\ Still

\* the end of HandleCollection: a collection with items goes to the cache
GetStore(g) ==
    /\ web.pc[g] = "loaded"
    /\ web' = [web EXCEPT !.pc[g] = "done",
                          !.cache = [x \in Backends |-> IF web.got[g][x] # <<>> THEN web.got[g][x] ELSE @[x]]]
    /\ UNCHANGED stores /\ Still

\* the POST of another Create activity to the outbox: the activity is saved
\* and added to the collection
PostWrite ==
    LET Commit(rb, rbo, rs) ==
            /\ badger' = b_St(rb) /\ bolt' = rbo.st /\ sqlite' = rs.st
            /\ web' = [web EXCEPT !.post = "written"]
    IN /\ web.post = "idle"
       /\ Commit(b_AddTo(b_St(b_Save(badger, OuterCreate)), Outbox, OuterCreate),
                 bolt_AddTo(bolt_Save(bolt, OuterCreate).st, Outbox, OuterCreate),
                 s_AddTo(s_Save(sqlite, OuterCreate).st, Outbox, OuterCreate))
       /\ Still

\* cache.ActivityPurge: the entries of the collection leave the cache
PostPurge ==
    /\ web.post = "written"
    /\ web' = [web EXCEPT !.post = "done", !.cache = [x \in Backends |-> <<>>]]
    /\ UNCHANGED stores /\ Still

NextWeb ==
    \/ \E g \in Gets : GetLoad(g)
    \/ \E g \in Gets : GetStore(g)
    \/ PostWrite
    \/ PostPurge

SpecWeb == InitWeb /\ [][NextWeb]_vars

FreshOn(x) ==
    \A g \in web.late : web.pc[g] = "done" => SeqContains(web.got[g][x], OuterIRI)

\* C37: a GET of the collection that starts after the POST is over returns
\* the collection with the posted activity, whatever GET was running during
\* the POST.
C37_GetAfterPostIsFresh == \A x \in Backends : FreshOn(x)


MalformedRejectedOn(x) ==
    /\ (last.op \in {"Save", "Load"} /\ last.iri = BadIRI) => last[x].err = "NotValid"
    /\ RecordsOn(x, BadIRI) = 0

\* C38: an operation on an IRI that does not parse as a URL fails with
\* NotValid, and no record is ever stored for such an IRI (at the key of an
\* empty path).
C38_MalformedIsNotValid == \A x \in Backends : MalformedRejectedOn(x)


\* the PasswordSet was for an IRI at which the repository holds no item
MetadataFirstOn(x) ==
    (LastOk("PasswordSet", x) /\ RecordsOn(x, last.iri) = 0) =>
        PasswordCheckOn(x, last.it, last.pw) = "ok"

\* C39: a PasswordSet for an IRI without a saved item either fails or stores
\* the metadata: after its success the PasswordCheck of the same password
\* succeeds, on every backend.
C39_MetadataBeforeItem == \A x \in Backends : MetadataFirstOn(x)


PersistedOn(x) ==
    \A op \in {"Save", "CreateService"} : LastOk(op, x) => RecordsOn(x, last.iri) >= 1

\* C40: a Save or a CreateService whose write fails returns an error: none
\* reports success for a record that the repository does not hold.
C40_WriteErrorsSurface == \A x \in Backends : PersistedOn(x)

=============================================================================
